---- MODULE Spec2Model ----
(***************************************************************************)
(* A model of the community authentication service (packages/api): the     *)
(* permission resolver of CommunityUser, the JWT service, and the login,   *)
(* refresh and user-administration routes over the user store.             *)
(*                                                                         *)
(* The routes are written against an instance-style repository             *)
(* (UserRepository(db).get_by_id, .create, .update_by_clerk_id, ...).  The *)
(* store operations are modelled by the repository methods of the same     *)
(* purpose in repositories/user_repository.py (get_user_by_id,             *)
(* create_user, update_user, ...).                                         *)
(***************************************************************************)
EXTENDS Integers, Sequences, FiniteSets, TLC

VARIABLES
    users,          \* community_users table: id -> row
    user_app_roles, \* user_app_roles table: set of rows
    next_id,        \* next surrogate id of community_users
    tokens,         \* every token the service has signed so far
    now,            \* the clock (utcnow), in minutes
    ADMIN_EMAILS,   \* the ADMIN_EMAILS environment value the process started with
    resp,           \* the outcome of the last call
    in_flight,      \* the requests being handled: each one's position and locals
    audit_logs,     \* audit_logs table: set of rows
    audit_log_available \* whether a write to audit_logs succeeds

vars ==
    <<users, user_app_roles, next_id, tokens, now, ADMIN_EMAILS, resp, in_flight,
      audit_logs, audit_log_available>>

(***************************************************************************)
(* Bounds of the model.                                                    *)
(***************************************************************************)
MaxUsers == 2
MaxTokens == 5
MaxTicks == 2

(***************************************************************************)
(* Python values.                                                          *)
(***************************************************************************)
None == "None"

\* the outcome of a call: a returned value, or a raised exception
Return(v) == [raised |-> "", status |-> 0, detail |-> "", value |-> v]
Raise(e) == [raised |-> e, status |-> 0, detail |-> "", value |-> <<>>]
HTTPException(status_code, detail) ==
    [raised |-> "HTTPException", status |-> status_code, detail |-> detail, value |-> <<>>]

Range(s) == {s[i] : i \in DOMAIN s}

(***************************************************************************)
(* models/user.py                                                          *)
(***************************************************************************)
\* class UserRole(str, enum.Enum): member name -> value
UserRole ==
    [USER |-> "USER", ADMIN |-> "ADMIN", SUPER_ADMIN |-> "SUPER_ADMIN",
     HOMEOWNER |-> "homeowner", GUEST |-> "guest", RESIDENT |-> "resident",
     STAFF |-> "staff"]

UserRoleValues == {UserRole[n] : n \in DOMAIN UserRole}

\* UserRole.<name>: the member, or AttributeError when the enum has no such member
HasMember(name) == name \in DOMAIN UserRole
Member(name) == UserRole[name]

_get_arc_permissions(self) ==
    LET base == <<"access">> IN
    IF ~HasMember("ARC_ADMIN") THEN Raise("AttributeError")
    ELSE IF self.role = Member("ARC_ADMIN")
        THEN Return(base \o <<"admin", "manage_applications", "assign_reviewers", "view_all">>)
    ELSE IF ~HasMember("ARC_REVIEWER") THEN Raise("AttributeError")
    ELSE IF self.role = Member("ARC_REVIEWER")
        THEN Return(base \o <<"review", "comment", "approve", "deny">>)
    ELSE IF self.role \in {UserRole.HOMEOWNER, UserRole.RESIDENT}
        THEN Return(base \o <<"submit", "view_own">>)
    ELSE Return(<<"guest">>)

_get_qr_permissions(self) ==
    LET base == <<"access">> IN
    IF ~HasMember("QR_ADMIN") THEN Raise("AttributeError")
    ELSE IF self.role = Member("QR_ADMIN")
        THEN Return(base \o <<"admin", "manage_gates", "view_logs", "manage_devices">>)
    ELSE IF ~HasMember("QR_SCANNER") THEN Raise("AttributeError")
    ELSE IF self.role = Member("QR_SCANNER") \/ self.role = UserRole.STAFF
        THEN Return(base \o <<"scan", "validate", "open_gate">>)
    ELSE IF self.role \in {UserRole.HOMEOWNER, UserRole.RESIDENT}
        THEN Return(base \o <<"resident_access">>)
    ELSE Return(<<"guest">>)

\* community permissions that also look at is_active
_get_community_permissions_if_active(self) ==
    LET base == <<"access">> IN
    IF ~self.is_active THEN Return(<<>>)
    ELSE IF self.role = UserRole.SUPER_ADMIN \/ self.role = UserRole.ADMIN
        THEN Return(base \o <<"manage_users", "assign_roles", "view_all_logs">>)
    ELSE Return(base \o <<"view_profile", "update_profile">>)

_get_community_permissions(self) ==
    LET base == <<"access">> IN
    IF self.role = UserRole.SUPER_ADMIN \/ self.role = UserRole.ADMIN
        THEN Return(base \o <<"manage_users", "assign_roles", "view_all_logs">>)
    ELSE Return(base \o <<"view_profile", "update_profile">>)

\* the default table without the RESIDENT mapping
_get_default_permissions_homeowner_only(self) ==
    IF self.role = UserRole.GUEST THEN Return(<<"guest">>)
    ELSE IF self.role = UserRole.HOMEOWNER THEN Return(<<"access", "user">>)
    ELSE Return(<<"access">>)

_get_default_permissions(self) ==
    IF self.role = UserRole.GUEST THEN Return(<<"guest">>)
    ELSE IF self.role \in {UserRole.HOMEOWNER, UserRole.RESIDENT}
        THEN Return(<<"access", "user">>)
    ELSE Return(<<"access">>)

get_permissions_for_service_no_legacy(self, service_name) ==
    IF self.role = UserRole.SUPER_ADMIN
        THEN Return(<<"access", "admin", "manage_users", "view_logs", "super_admin">>)
    ELSE IF service_name = "arc" THEN _get_arc_permissions(self)
    ELSE IF service_name = "qr_gate" THEN _get_qr_permissions(self)
    ELSE IF service_name = "community_auth" THEN _get_community_permissions(self)
    ELSE _get_default_permissions(self)

get_permissions_for_service(self, service_name) ==
    IF self.role = UserRole.SUPER_ADMIN \/ self.role = UserRole.ADMIN
        THEN Return(<<"access", "admin", "manage_users", "view_logs", "super_admin">>)
    ELSE IF service_name = "arc" THEN _get_arc_permissions(self)
    ELSE IF service_name = "qr_gate" THEN _get_qr_permissions(self)
    ELSE IF service_name = "community_auth" THEN _get_community_permissions(self)
    ELSE _get_default_permissions(self)

(***************************************************************************)
(* utils/config.py                                                         *)
(***************************************************************************)
\* str.split(","): an environment value is a sequence of atoms in which ","
\* is the separator and no two other atoms are adjacent
RECURSIVE split(_)
split(s) ==
    IF \E i \in DOMAIN s : s[i] = ","
    THEN LET i == CHOOSE k \in DOMAIN s : s[k] = "," /\ \A j \in 1..(k - 1) : s[j] # ","
             head == SubSeq(s, 1, i - 1)
         IN <<IF head = <<>> THEN "" ELSE head[1]>> \o split(SubSeq(s, i + 1, Len(s)))
    ELSE <<IF s = <<>> THEN "" ELSE s[1]>>

\* os.getenv("ADMIN_EMAILS", ""): the unset variable reads as the empty string
EnvironmentValues ==
    { <<>>, <<"admin@example.org", ",", "boss@example.org">> }

admin_emails == split(ADMIN_EMAILS)

jwt_secret_key == "your-super-secret-key-change-in-production"
settings_service_token == "your-service-token-change-in-production"
jwt_expire_minutes == 60 * 24 * 7
refresh_expire_minutes == 30 * 24 * 60

(***************************************************************************)
(* services/jwt_service.py                                                 *)
(***************************************************************************)
\* from jose import jwt: the names the jose.jwt module defines
jose_jwt ==
    {"encode", "decode", "get_unverified_header", "get_unverified_headers",
     "get_unverified_claims", "ExpiredSignatureError", "JWSError",
     "JWTClaimsError", "JWTError"}

\* jwt.encode(payload, key): the payload under a signature made with key
encode(payload, key) == [payload |-> payload, signed_with |-> key]

\* jwt.decode(token, key, options={"verify_exp": True}) at time t
decode(token, key, t) ==
    IF token.signed_with # key THEN Raise("JWTError")
    ELSE IF token.payload.exp < t THEN Raise("ExpiredSignatureError")
    ELSE Return(token.payload)

\* a token that does not take the role from user_data
create_community_token_default_role(user_data, t) ==
    encode([user_id |-> user_data.id,
            clerk_user_id |-> user_data.clerk_user_id,
            email |-> user_data.email,
            full_name |-> user_data.full_name,
            role |-> UserRole.HOMEOWNER,
            unit_number |-> user_data.unit_number,
            is_active |-> user_data.is_active,
            iat |-> t,
            exp |-> t + jwt_expire_minutes,
            iss |-> "community-auth-service",
            type |-> "community_access"], jwt_secret_key)

create_community_token(user_data, t) ==
    encode([user_id |-> user_data.id,
            clerk_user_id |-> user_data.clerk_user_id,
            email |-> user_data.email,
            full_name |-> user_data.full_name,
            role |-> user_data.role,
            unit_number |-> user_data.unit_number,
            is_active |-> user_data.is_active,
            iat |-> t,
            exp |-> t + jwt_expire_minutes,
            iss |-> "community-auth-service",
            type |-> "community_access"], jwt_secret_key)

\* a refresh token that lives as long as an access token
create_refresh_token_short(user_id, t) ==
    encode([user_id |-> user_id,
            type |-> "refresh",
            iat |-> t,
            exp |-> t + jwt_expire_minutes,
            iss |-> "community-auth-service"], jwt_secret_key)

create_refresh_token(user_id, t) ==
    encode([user_id |-> user_id,
            type |-> "refresh",
            iat |-> t,
            exp |-> t + refresh_expire_minutes,
            iss |-> "community-auth-service"], jwt_secret_key)

\* the except clauses of validate_token / validate_refresh_token, tried in
\* order against a raised exception e; naming a handler class the jose.jwt
\* module does not define raises AttributeError in place of e
handle(e, expired_detail, invalid_detail) ==
    IF e.raised = "ExpiredSignatureError" THEN HTTPException(401, expired_detail)
    ELSE IF "InvalidTokenError" \notin jose_jwt THEN Raise("AttributeError")
    ELSE IF e.raised = "InvalidTokenError" THEN HTTPException(401, invalid_detail)
    ELSE e

\* a validation that consults the store: the role claimed must be the role stored
validate_token_against_store(token, t) ==
    LET payload == decode(token, jwt_secret_key, t) IN
    IF payload.raised # "" THEN handle(payload, "Token has expired", "Invalid token")
    ELSE IF /\ "role" \in DOMAIN payload.value
            /\ \E i \in DOMAIN users : i = payload.value.user_id
                                        /\ users[i].role # payload.value.role
        THEN HTTPException(401, "Invalid token")
    ELSE payload

validate_token(token, t) ==
    LET payload == decode(token, jwt_secret_key, t) IN
    IF payload.raised = "" THEN payload
    ELSE handle(payload, "Token has expired", "Invalid token")

validate_refresh_token(token, t) ==
    LET payload == decode(token, jwt_secret_key, t) IN
    IF payload.raised # ""
        THEN handle(payload, "Refresh token has expired", "Invalid refresh token")
    ELSE IF payload.value.type # "refresh"
        THEN handle(HTTPException(401, "Invalid token type"),
                    "Refresh token has expired", "Invalid refresh token")
    ELSE payload

(***************************************************************************)
(* repositories/user_repository.py over the community_users table          *)
(***************************************************************************)
\* select ... where id == user_id; scalar_one_or_none(): no row or one row
get_user_by_id(user_id) == {users[i] : i \in DOMAIN users \cap {user_id}}

\* a lookup that finds no one
get_user_by_clerk_id_not_found(clerk_user_id) == {}

get_user_by_clerk_id(clerk_user_id) ==
    {users[i] : i \in {j \in DOMAIN users : users[j].clerk_user_id = clerk_user_id}}

get_user_by_email(email) ==
    {users[i] : i \in {j \in DOMAIN users : users[j].email = email}}

\* the table's constraints: email and clerk_user_id are unique and not null
violates_constraints(table, row) ==
    \/ row.email = None
    \/ row.clerk_user_id = None
    \/ \E i \in DOMAIN table \ {row.id} :
        table[i].email = row.email \/ table[i].clerk_user_id = row.clerk_user_id

\* a create that never fails
create_user_unchecked(clerk_user_id, email, full_name, role, unit_number, phone_number) ==
    Return([id |-> next_id, clerk_user_id |-> clerk_user_id, email |-> email,
            full_name |-> full_name, role |-> role, unit_number |-> unit_number,
            phone_number |-> phone_number, is_active |-> TRUE])

\* create_user: the new row, or IntegrityError at commit
create_user(clerk_user_id, email, full_name, role, unit_number, phone_number) ==
    LET user == [id |-> next_id, clerk_user_id |-> clerk_user_id, email |-> email,
                 full_name |-> full_name, role |-> role, unit_number |-> unit_number,
                 phone_number |-> phone_number, is_active |-> TRUE]
    IN IF violates_constraints(users, user) THEN Raise("IntegrityError") ELSE Return(user)

\* update_user: every argument that is not None replaces the column
update_user(user, email, full_name, role, unit_number, phone_number, is_active) ==
    LET updated ==
        [user EXCEPT
            !.email = IF email # None THEN email ELSE @,
            !.full_name = IF full_name # None THEN full_name ELSE @,
            !.role = IF role # None THEN role ELSE @,
            !.unit_number = IF unit_number # None THEN unit_number ELSE @,
            !.phone_number = IF phone_number # None THEN phone_number ELSE @,
            !.is_active = IF is_active # None THEN is_active = "True" ELSE @]
    IN IF violates_constraints(users, updated) THEN Raise("IntegrityError") ELSE Return(updated)

\* the table with a created or updated row written
written(user) == [i \in DOMAIN users \cup {user.id} |-> IF i = user.id THEN user ELSE users[i]]

app_roles_of(user_id) == {r \in user_app_roles : r.user_id = user_id}

\* CommunityUser.to_dict()
to_dict(user) ==
    [id |-> user.id, clerk_user_id |-> user.clerk_user_id, email |-> user.email,
     full_name |-> user.full_name, unit_number |-> user.unit_number,
     phone_number |-> user.phone_number, role |-> user.role,
     is_active |-> user.is_active,
     app_roles |-> {<<r.app_name, r.role>> : r \in app_roles_of(user.id)}]

(***************************************************************************)
(* Responses.                                                              *)
(***************************************************************************)
Response(op) ==
    [op |-> op, status |-> 200, detail |-> "", user_id |-> 0, role |-> None,
     service |-> None, presented |-> {}, issued |-> {}, permissions |-> <<>>,
     raised |-> "", body |-> {}, at |-> 0]

Failure(op, status_code, detail) ==
    [Response(op) EXCEPT !.status = status_code, !.detail = detail]

\* a raised HTTPException reaches the client as it is; handler is what the
\* route's "except Exception" clause makes of any other exception
Failed(op, e, handler_status, handler_detail) ==
    IF e.raised = "HTTPException" THEN Failure(op, e.status, e.detail)
    ELSE [Failure(op, handler_status, handler_detail) EXCEPT !.raised = e.raised]

\* the tokens a client can present: those the service signed, and one signed
\* with another key
ForgedToken ==
    encode([user_id |-> 1, type |-> "refresh", iat |-> 0,
            exp |-> refresh_expire_minutes, iss |-> "community-auth-service"], "another-key")

Presentable == tokens \cup {ForgedToken}

\* the response to a request that carried token
Presenting(token, response) == [response EXCEPT !.presented = {token}]

(***************************************************************************)
(* The verified identities the identity provider hands over.               *)
(***************************************************************************)
Identities ==
    { [clerk_user_id |-> "ext_1", email |-> "admin@example.org",
       full_name |-> "A Admin", phone_number |-> None],
      [clerk_user_id |-> "ext_2", email |-> "resident@example.org",
       full_name |-> "R Resident", phone_number |-> None],
      [clerk_user_id |-> "ext_2", email |-> "boss@example.org",
       full_name |-> "R Resident", phone_number |-> "+15550100"],
      [clerk_user_id |-> "ext_2", email |-> "",
       full_name |-> "ext_2", phone_number |-> None] }

Services == {"arc", "qr_gate", "community_auth", "billing"}

\* the bound on the tokens kept in the model
Room(new) == Cardinality(tokens \cup new) <= MaxTokens

(***************************************************************************)
(* routes/auth.py                                                          *)
(***************************************************************************)
\* UserRepository.log_user_action: a row added to audit_logs and committed.
\* The row is kept as (user_id, service_name, action, resource); user_id is a
\* foreign key to community_users.id, checked against the table as the
\* request has written it.
log_user_action(table, user_id, service_name, action, resource) ==
    IF ~audit_log_available THEN Raise("OperationalError")
    ELSE IF user_id \notin DOMAIN table THEN Raise("IntegrityError")
    ELSE Return(audit_logs \cup {[user_id |-> user_id, service_name |-> service_name,
                                  action |-> action, resource |-> resource]})

\* role = UserRole.SUPER_ADMIN if email in settings.admin_emails else UserRole.HOMEOWNER
initial_role(email) ==
    IF email \in Range(admin_emails) THEN UserRole.SUPER_ADMIN ELSE UserRole.HOMEOWNER

\* get or create, the role decided again at every login
get_or_create_deciding_role(identity) ==
    LET found == get_user_by_clerk_id(identity.clerk_user_id) IN
    IF found = {}
    THEN create_user(identity.clerk_user_id, identity.email, identity.full_name,
                     initial_role(identity.email), None, identity.phone_number)
    ELSE update_user(CHOOSE u \in found : TRUE, identity.email, identity.full_name,
                     initial_role(identity.email), None, identity.phone_number, None)

\* "Get or create user in our database" of login_with_clerk
get_or_create(identity) ==
    LET found == get_user_by_clerk_id(identity.clerk_user_id) IN
    IF found = {}
    THEN create_user(identity.clerk_user_id, identity.email, identity.full_name,
                     initial_role(identity.email), None, identity.phone_number)
    ELSE update_user(CHOOSE u \in found : TRUE, identity.email, identity.full_name,
                     None, None, identity.phone_number, None)

\* POST /auth/login, the identity provider having verified the session
login_with_clerk(identity) ==
    LET saved == get_or_create(identity) IN
    IF saved.raised # ""
    THEN /\ resp' = Failed("login_with_clerk", saved, 500, "Login failed")
         /\ UNCHANGED <<users, user_app_roles, next_id, tokens, now, ADMIN_EMAILS, audit_logs, audit_log_available, in_flight>>
    ELSE LET user == saved.value
             access_token == create_community_token(to_dict(user), now)
             refresh_token == create_refresh_token(user.id, now)
             logged == log_user_action(written(user), user.id, "community_auth",
                                       "login", None)
         IN /\ user.id = next_id => next_id <= MaxUsers
            /\ Room({access_token, refresh_token})
            /\ users' = written(user)
            /\ next_id' = IF user.id = next_id THEN next_id + 1 ELSE next_id
            /\ IF logged.raised # ""
               THEN \* the user is committed; the tokens made go with the request
                    /\ resp' = Failed("login_with_clerk", logged, 500, "Login failed")
                    /\ UNCHANGED <<tokens, audit_logs>>
               ELSE /\ tokens' = tokens \cup {access_token, refresh_token}
                    /\ audit_logs' = logged.value
                    /\ resp' = [Response("login_with_clerk") EXCEPT
                                    !.user_id = user.id, !.role = user.role,
                                    !.issued = {access_token, refresh_token}]
            /\ UNCHANGED <<user_app_roles, now, ADMIN_EMAILS, audit_log_available, in_flight>>

\* "if not user:", the test without its second half
not_user(found) == found = {}

\* "if not user or not user.is_active:" of refresh_token
not_user_or_not_active(found) == found = {} \/ \E u \in found : ~u.is_active

\* POST /auth/refresh
refresh_token(token) ==
    LET payload == validate_refresh_token(token, now) IN
    IF payload.raised # ""
    THEN /\ resp' = Presenting(token, Failed("refresh_token", payload, 500, "Token refresh failed"))
         /\ UNCHANGED <<users, user_app_roles, next_id, tokens, now, ADMIN_EMAILS, audit_logs, audit_log_available, in_flight>>
    ELSE LET found == get_user_by_id(payload.value.user_id) IN
         IF not_user_or_not_active(found)
         THEN /\ resp' = Presenting(token, Failure("refresh_token", 401, "User not found or inactive"))
              /\ UNCHANGED <<users, user_app_roles, next_id, tokens, now, ADMIN_EMAILS, audit_logs, audit_log_available, in_flight>>
         ELSE LET user == CHOOSE u \in found : TRUE
                  new_access_token == create_community_token(to_dict(user), now)
                  new_refresh_token == create_refresh_token(user.id, now)
              IN /\ Room({new_access_token, new_refresh_token})
                 /\ tokens' = tokens \cup {new_access_token, new_refresh_token}
                 /\ resp' = [Response("refresh_token") EXCEPT !.presented = {token},
                                 !.user_id = user.id, !.role = user.role,
                                 !.issued = {new_access_token, new_refresh_token}]
                 /\ UNCHANGED <<users, user_app_roles, next_id, now, ADMIN_EMAILS, audit_logs, audit_log_available, in_flight>>

\* POST /auth/logout: the token is validated for the audit entry only; the
\* answer is the same whether or not it validates
logout(token) ==
    LET payload == validate_token(token, now) IN
    /\ resp' = [Response("logout") EXCEPT
                    !.presented = {token},
                    !.detail = "Logged out successfully",
                    !.user_id = IF payload.raised = "" THEN payload.value.user_id ELSE 0]
    /\ audit_logs' =
           IF payload.raised # "" THEN audit_logs
           ELSE LET logged == log_user_action(users, payload.value.user_id,
                                              "community_auth", "logout", None)
                IN IF logged.raised # "" THEN audit_logs ELSE logged.value
    /\ UNCHANGED <<users, user_app_roles, next_id, tokens, now, ADMIN_EMAILS, audit_log_available, in_flight>>

(***************************************************************************)
(* routes/users.py                                                         *)
(***************************************************************************)
\* the get_current_user dependency: the user row, or the exception raised
get_current_user(token) ==
    LET payload == validate_token(token, now) IN
    IF payload.raised = "HTTPException" THEN payload
    ELSE IF payload.raised # "" THEN HTTPException(401, "Invalid token")
    ELSE LET found == get_user_by_id(payload.value.user_id) IN
         IF found = {} THEN HTTPException(404, "User not found")
         ELSE Return(CHOOSE u \in found : TRUE)

\* the require_admin dependency
require_admin(token) ==
    LET current_user == get_current_user(token) IN
    IF current_user.raised # "" THEN current_user
    ELSE IF current_user.value.role \notin {UserRole.SUPER_ADMIN, UserRole.ADMIN}
        THEN HTTPException(403, "Admin access required")
    ELSE current_user

\* GET /users/me
get_current_user_profile(token) ==
    LET current_user == get_current_user(token) IN
    /\ resp' = IF current_user.raised # ""
               THEN Presenting(token, Failed("get_current_user_profile", current_user, 500, ""))
               ELSE [Response("get_current_user_profile") EXCEPT !.presented = {token},
                        !.user_id = current_user.value.id,
                        !.role = current_user.value.role]
    /\ UNCHANGED <<users, user_app_roles, next_id, tokens, now, ADMIN_EMAILS, audit_logs, audit_log_available, in_flight>>

\* POST /users/{user_id}/role
assign_user_role(token, user_id, role) ==
    LET admin_user == require_admin(token)
        target == get_user_by_id(user_id)
    IN IF admin_user.raised # ""
       THEN /\ resp' = Presenting(token, Failed("assign_user_role", admin_user, 500, ""))
            /\ UNCHANGED <<users, user_app_roles, next_id, tokens, now, ADMIN_EMAILS, audit_logs, audit_log_available, in_flight>>
       ELSE IF target = {}
       THEN /\ resp' = Presenting(token, Failure("assign_user_role", 404, "User not found"))
            /\ UNCHANGED <<users, user_app_roles, next_id, tokens, now, ADMIN_EMAILS, audit_logs, audit_log_available, in_flight>>
       ELSE LET updated_user == update_user(CHOOSE u \in target : TRUE,
                                            None, None, role, None, None, None).value
                logged == log_user_action(written(updated_user), admin_user.value.id,
                                          "community_auth", "role_changed", user_id)
            IN /\ users' = written(updated_user)
               /\ IF logged.raised # ""
                  THEN /\ resp' = Presenting(token, Failed("assign_user_role", logged, 500,
                                                           "Internal Server Error"))
                       /\ UNCHANGED audit_logs
                  ELSE /\ audit_logs' = logged.value
                       /\ resp' = [Response("assign_user_role") EXCEPT !.presented = {token},
                                       !.user_id = updated_user.id,
                                       !.role = updated_user.role]
               /\ UNCHANGED <<user_app_roles, next_id, tokens, now, ADMIN_EMAILS, audit_log_available, in_flight>>

\* POST /users/{user_id}/deactivate
deactivate_user(token, user_id) ==
    LET admin_user == require_admin(token)
        target == get_user_by_id(user_id)
    IN IF admin_user.raised # ""
       THEN /\ resp' = Presenting(token, Failed("deactivate_user", admin_user, 500, ""))
            /\ UNCHANGED <<users, user_app_roles, next_id, tokens, now, ADMIN_EMAILS, audit_logs, audit_log_available, in_flight>>
       ELSE IF target = {}
       THEN /\ resp' = Presenting(token, Failure("deactivate_user", 404, "User not found"))
            /\ UNCHANGED <<users, user_app_roles, next_id, tokens, now, ADMIN_EMAILS, audit_logs, audit_log_available, in_flight>>
       ELSE IF user_id = admin_user.value.id
       THEN /\ resp' = Presenting(token, Failure("deactivate_user", 400, "Cannot deactivate yourself"))
            /\ UNCHANGED <<users, user_app_roles, next_id, tokens, now, ADMIN_EMAILS, audit_logs, audit_log_available, in_flight>>
       ELSE LET updated_user == [(CHOOSE u \in target : TRUE) EXCEPT !.is_active = FALSE]
                logged == log_user_action(written(updated_user), admin_user.value.id,
                                          "community_auth", "user_deactivated", user_id)
            IN /\ users' = written(updated_user)
               /\ IF logged.raised # ""
                  THEN /\ resp' = Presenting(token, Failed("deactivate_user", logged, 500,
                                                           "Internal Server Error"))
                       /\ UNCHANGED audit_logs
                  ELSE /\ audit_logs' = logged.value
                       /\ resp' = [Response("deactivate_user") EXCEPT !.presented = {token},
                                       !.user_id = updated_user.id,
                                       !.role = updated_user.role]
               /\ UNCHANGED <<user_app_roles, next_id, tokens, now, ADMIN_EMAILS, audit_log_available, in_flight>>

\* POST /users/{user_id}/activate
activate_user(token, user_id) ==
    LET admin_user == require_admin(token)
        target == get_user_by_id(user_id)
    IN IF admin_user.raised # ""
       THEN /\ resp' = Presenting(token, Failed("activate_user", admin_user, 500, ""))
            /\ UNCHANGED <<users, user_app_roles, next_id, tokens, now, ADMIN_EMAILS, audit_logs, audit_log_available, in_flight>>
       ELSE IF target = {}
       THEN /\ resp' = Presenting(token, Failure("activate_user", 404, "User not found"))
            /\ UNCHANGED <<users, user_app_roles, next_id, tokens, now, ADMIN_EMAILS, audit_logs, audit_log_available, in_flight>>
       ELSE LET updated_user == update_user(CHOOSE u \in target : TRUE,
                                            None, None, None, None, None, "True").value
                logged == log_user_action(written(updated_user), admin_user.value.id,
                                          "community_auth", "user_activated", user_id)
            IN /\ users' = written(updated_user)
               /\ IF logged.raised # ""
                  THEN /\ resp' = Presenting(token, Failed("activate_user", logged, 500,
                                                           "Internal Server Error"))
                       /\ UNCHANGED audit_logs
                  ELSE /\ audit_logs' = logged.value
                       /\ resp' = [Response("activate_user") EXCEPT !.presented = {token},
                                       !.user_id = updated_user.id,
                                       !.role = updated_user.role]
               /\ UNCHANGED <<user_app_roles, next_id, tokens, now, ADMIN_EMAILS, audit_log_available, in_flight>>

(***************************************************************************)
(* routes/validation.py                                                    *)
(***************************************************************************)
\* a check that lets every non-empty token pass
validate_service_token_not_empty(service_token, expected_service) ==
    service_token # ""

validate_service_token(service_token, expected_service) ==
    service_token = settings_service_token

\* the dict get_user_for_service and get_user_by_clerk_id_for_service return
user_for_service(user, permissions) ==
    [id |-> user.id, clerk_user_id |-> user.clerk_user_id, email |-> user.email,
     full_name |-> user.full_name, unit_number |-> user.unit_number,
     phone_number |-> user.phone_number, role |-> user.role,
     is_active |-> user.is_active, permissions |-> permissions]

\* what both routes do with the row(s) found
found_for_service(op, user_id, found, service_name) ==
    IF found = {}
    THEN [Failure(op, 404, "User not found") EXCEPT !.user_id = user_id,
                                                     !.service = service_name]
    ELSE LET user == CHOOSE u \in found : TRUE
             permissions == get_permissions_for_service(user, service_name)
         IN IF permissions.raised # ""
            THEN [Failed(op, permissions, 500, "Failed to get user") EXCEPT
                      !.user_id = user.id, !.service = service_name]
            ELSE [Response(op) EXCEPT
                      !.user_id = user.id, !.role = user.role, !.service = service_name,
                      !.permissions = permissions.value,
                      !.body = {user_for_service(user, permissions.value)}]

\* GET /validate/user/{user_id}
get_user_for_service(user_id, service_token, service_name) ==
    /\ resp' = IF ~validate_service_token(service_token, service_name)
               THEN [Failure("get_user_for_service", 403, "Invalid service token")
                        EXCEPT !.user_id = user_id, !.service = service_name]
               ELSE found_for_service("get_user_for_service", user_id,
                                      get_user_by_id(user_id), service_name)
    /\ UNCHANGED <<users, user_app_roles, next_id, tokens, now, ADMIN_EMAILS, audit_logs, audit_log_available, in_flight>>

\* GET /validate/user/by-clerk-id/{clerk_user_id}
get_user_by_clerk_id_for_service(clerk_user_id, service_token, service_name) ==
    /\ resp' = IF ~validate_service_token(service_token, service_name)
               THEN [Failure("get_user_by_clerk_id_for_service", 403,
                             "Invalid service token") EXCEPT !.service = service_name]
               ELSE found_for_service("get_user_by_clerk_id_for_service", 0,
                                      get_user_by_clerk_id(clerk_user_id), service_name)
    /\ UNCHANGED <<users, user_app_roles, next_id, tokens, now, ADMIN_EMAILS, audit_logs, audit_log_available, in_flight>>

\* all(perm in user_permissions for perm in required_permissions)
all_in(required_permissions, user_permissions) ==
    \A i \in DOMAIN required_permissions :
        required_permissions[i] \in Range(user_permissions)

\* POST /validate/permissions
check_user_permissions(user_id, service_name, required_permissions, service_token) ==
    LET op == "check_user_permissions"
        found == get_user_by_id(user_id)
        request == [Response(op) EXCEPT !.user_id = user_id, !.service = service_name]
    IN
    /\ resp' =
         IF ~validate_service_token(service_token, service_name)
         THEN [request EXCEPT !.status = 403, !.detail = "Invalid service token"]
         ELSE IF found = {} \/ \E u \in found : ~u.is_active
         THEN [request EXCEPT
                  !.body = {[authorized |-> FALSE,
                             reason |-> "User not found or inactive"]}]
         ELSE LET user == CHOOSE u \in found : TRUE
                  user_permissions == get_permissions_for_service(user, service_name)
              IN IF user_permissions.raised # ""
                 THEN [request EXCEPT !.status = 500, !.detail = "Permission check failed",
                                      !.raised = user_permissions.raised]
                 ELSE [request EXCEPT
                          !.role = user.role,
                          !.permissions = user_permissions.value,
                          !.body = {[authorized |->
                                         all_in(required_permissions,
                                                user_permissions.value),
                                     user_permissions |-> user_permissions.value,
                                     required_permissions |-> required_permissions]}]
    /\ UNCHANGED <<users, user_app_roles, next_id, tokens, now, ADMIN_EMAILS, audit_logs, audit_log_available, in_flight>>

\* POST /validate/token: always answered 200, with valid true or false
validate_token_for_service(token, service_name) ==
    LET op == "validate_token_for_service"
        request == [Response(op) EXCEPT !.presented = {token}, !.service = service_name]
        invalid(error) == [request EXCEPT !.body = {[valid |-> FALSE, error |-> error]}]
        payload == validate_token(token, now)
    IN
    /\ resp' =
         IF payload.raised = "HTTPException" THEN invalid(payload.detail)
         ELSE IF payload.raised # ""
         THEN [invalid("Token validation failed") EXCEPT !.raised = payload.raised]
         ELSE LET found == get_user_by_id(payload.value.user_id) IN
         IF found = {} \/ \E u \in found : ~u.is_active
         THEN [invalid("User not found or inactive") EXCEPT
                  !.user_id = payload.value.user_id]
         ELSE LET user == CHOOSE u \in found : TRUE
                  permissions == get_permissions_for_service(user, service_name)
              IN IF permissions.raised # ""
                 THEN [invalid("Token validation failed") EXCEPT
                          !.user_id = user.id, !.raised = permissions.raised]
                 ELSE [request EXCEPT
                          !.user_id = user.id, !.role = user.role,
                          !.permissions = permissions.value,
                          !.body = {[valid |-> TRUE, user_id |-> user.id,
                                     clerk_user_id |-> user.clerk_user_id,
                                     email |-> user.email, full_name |-> user.full_name,
                                     unit_number |-> user.unit_number, role |-> user.role,
                                     permissions |-> permissions.value]}]
    /\ UNCHANGED <<users, user_app_roles, next_id, tokens, now, ADMIN_EMAILS, audit_logs, audit_log_available, in_flight>>

(***************************************************************************)
(* routes/roles.py                                                         *)
(***************************************************************************)
\* the require_super_admin dependency over get_current_user, which is the
\* same code in roles.py as in users.py
require_super_admin(token) ==
    LET current_user == get_current_user(token) IN
    IF current_user.raised # "" THEN current_user
    ELSE IF current_user.value.role \notin {UserRole.SUPER_ADMIN, UserRole.ADMIN}
        THEN HTTPException(403, "Super admin access required")
    ELSE current_user

\* the "permissions" dict of get_user_permissions: the four resolver calls,
\* the first exception propagating
permissions_by_service(user) ==
    LET community_auth == get_permissions_for_service(user, "community_auth")
        arc == get_permissions_for_service(user, "arc")
        qr_gate == get_permissions_for_service(user, "qr_gate")
        default == get_permissions_for_service(user, "unknown_service")
    IN IF community_auth.raised # "" THEN community_auth
       ELSE IF arc.raised # "" THEN arc
       ELSE IF qr_gate.raised # "" THEN qr_gate
       ELSE IF default.raised # "" THEN default
       ELSE Return([community_auth |-> community_auth.value, arc |-> arc.value,
                    qr_gate |-> qr_gate.value, default |-> default.value])

\* GET /roles/user/{user_id}/permissions
get_user_permissions(token, user_id) ==
    LET op == "get_user_permissions"
        super_admin == require_super_admin(token)
        found == get_user_by_id(user_id)
        request == [Response(op) EXCEPT !.presented = {token}, !.user_id = user_id]
    IN
    /\ resp' =
         IF super_admin.raised # ""
         THEN [request EXCEPT !.status = super_admin.status,
                              !.detail = super_admin.detail]
         ELSE IF found = {}
         THEN [request EXCEPT !.status = 404, !.detail = "User not found"]
         ELSE LET user == CHOOSE u \in found : TRUE
                  permissions == permissions_by_service(user)
              IN IF permissions.raised # ""
                 THEN [request EXCEPT !.status = 500, !.detail = "Internal Server Error",
                                      !.raised = permissions.raised]
                 ELSE [request EXCEPT
                          !.role = user.role,
                          !.body = {[user |-> [id |-> user.id, email |-> user.email,
                                               full_name |-> user.full_name,
                                               role |-> user.role],
                                     permissions |-> permissions.value]}]
    /\ UNCHANGED <<users, user_app_roles, next_id, tokens, now, ADMIN_EMAILS, audit_logs, audit_log_available, in_flight>>

(***************************************************************************)
(* routes/mobile.py                                                        *)
(***************************************************************************)
\* oauth_complete and mobile_login after the provider reported success:
\* get or create the user (an existing user is not updated), one access token
mobile_exchange(op, identity) ==
    LET found == get_user_by_clerk_id(identity.clerk_user_id)
        saved == IF found = {}
                 THEN create_user(identity.clerk_user_id, identity.email,
                                  identity.full_name, initial_role(identity.email),
                                  None, None)
                 ELSE Return(CHOOSE u \in found : TRUE)
    IN IF saved.raised # ""
       THEN /\ resp' = [Failure(op, 400, "failed") EXCEPT !.raised = saved.raised]
            /\ UNCHANGED <<users, user_app_roles, next_id, tokens, now, ADMIN_EMAILS, audit_logs, audit_log_available, in_flight>>
       ELSE LET user == saved.value
                access_token == create_community_token(to_dict(user), now)
            IN /\ user.id = next_id => next_id <= MaxUsers
               /\ Room({access_token})
               /\ users' = written(user)
               /\ next_id' = IF user.id = next_id THEN next_id + 1 ELSE next_id
               /\ tokens' = tokens \cup {access_token}
               /\ resp' = [Response(op) EXCEPT
                               !.user_id = user.id, !.role = user.role,
                               !.issued = {access_token}]
               /\ UNCHANGED <<user_app_roles, now, ADMIN_EMAILS, audit_logs, audit_log_available, in_flight>>

\* POST /mobile/auth/oauth-complete
oauth_complete(identity) == mobile_exchange("oauth_complete", identity)

\* POST /mobile/auth/login
mobile_login(identity) == mobile_exchange("mobile_login", identity)

(***************************************************************************)
(* routes/landing.py                                                       *)
(***************************************************************************)
TestEmails == {"jacob@reider.us", "resident@example.org"}

\* email.replace('@', '_')
replace_at(email) ==
    CASE email = "jacob@reider.us" -> "jacob_reider.us"
      [] email = "resident@example.org" -> "resident_example.org"

\* GET /api/test-login?email=...
test_login(email) ==
    LET role == IF email \in {"jacob@brasilito.org", "jacob@reider.us"}
                THEN UserRole.SUPER_ADMIN ELSE UserRole.HOMEOWNER
        mock_user == [id |-> 1, clerk_user_id |-> "test_" \o replace_at(email),
                      email |-> email, full_name |-> "Test User (" \o email \o ")", unit_number |-> "101",
                      phone_number |-> None, role |-> role, is_active |-> TRUE]
        access_token == create_community_token(mock_user, now)
    IN /\ Room({access_token})
       /\ tokens' = tokens \cup {access_token}
       /\ resp' = [Response("test_login") EXCEPT
                       !.user_id = mock_user.id, !.role = role, !.issued = {access_token}]
       /\ UNCHANGED <<users, user_app_roles, next_id, now, ADMIN_EMAILS, audit_logs, audit_log_available, in_flight>>

(***************************************************************************)
(* repositories/user_repository.py: operations on the tables               *)
(***************************************************************************)
AppRoleInputs == {<<"arc", "owner">>, <<"arc", "reviewer">>}

\* delete_user: the soft delete
delete_user(user_id) ==
    /\ user_id \in DOMAIN users
    /\ users' = [users EXCEPT ![user_id].is_active = FALSE]
    /\ resp' = [Response("delete_user") EXCEPT !.user_id = user_id]
    /\ UNCHANGED <<user_app_roles, next_id, tokens, now, ADMIN_EMAILS, audit_logs, audit_log_available, in_flight>>

\* get_all_users: the rows with is_active == True
get_all_users ==
    /\ resp' = [Response("get_all_users") EXCEPT
                    !.body = {u \in Range(users) : u.is_active = TRUE}]
    /\ UNCHANGED <<users, user_app_roles, next_id, tokens, now, ADMIN_EMAILS, audit_logs, audit_log_available, in_flight>>

\* get_users_by_app_role: users joined with their app roles, active only;
\* role None stands for the argument left out
get_users_by_app_role(app_name, role) ==
    /\ resp' = [Response("get_users_by_app_role") EXCEPT
                    !.service = app_name,
                    !.body = {u \in Range(users) :
                                 /\ \E r \in user_app_roles :
                                        /\ r.user_id = u.id
                                        /\ r.app_name = app_name
                                        /\ role # None => r.role = role
                                 /\ u.is_active = TRUE}]
    /\ UNCHANGED <<users, user_app_roles, next_id, tokens, now, ADMIN_EMAILS, audit_logs, audit_log_available, in_flight>>

\* hard_delete_user: the user's app roles and the user row are deleted.  The
\* rows of audit_logs keep their user_id: a store that enforces the foreign
\* key refuses the delete of a user they name (nothing is committed), a
\* store that does not (sqlite as configured) deletes the user.
hard_delete_user(user_id) ==
    /\ user_id \in DOMAIN users
    /\ \/ /\ user_app_roles' = {r \in user_app_roles : r.user_id # user_id}
          /\ users' = [i \in DOMAIN users \ {user_id} |-> users[i]]
          /\ resp' = [Response("hard_delete_user") EXCEPT !.user_id = user_id]
       \/ /\ \E row \in audit_logs : row.user_id = user_id
          /\ resp' = [Failure("hard_delete_user", 500, "") EXCEPT
                          !.user_id = user_id, !.raised = "IntegrityError"]
          /\ UNCHANGED <<users, user_app_roles>>
    /\ UNCHANGED <<next_id, tokens, now, ADMIN_EMAILS, audit_logs, audit_log_available, in_flight>>

\* set_user_app_role that also moves the global role to the app role's level
set_user_app_role_conflating(user_id, app_name, role) ==
    /\ user_id \in DOMAIN users
    /\ user_app_roles' =
           {r \in user_app_roles : ~(r.user_id = user_id /\ r.app_name = app_name)}
           \cup {[user_id |-> user_id, app_name |-> app_name, role |-> role]}
    /\ users' = [users EXCEPT ![user_id].role =
                     IF role = "reviewer" THEN UserRole.STAFF ELSE UserRole.HOMEOWNER]
    /\ resp' = [Response("set_user_app_role") EXCEPT !.user_id = user_id]
    /\ UNCHANGED <<next_id, tokens, now, ADMIN_EMAILS, audit_logs, audit_log_available, in_flight>>

\* set_user_app_role: the rows of (user_id, app_name) deleted, the new row added
set_user_app_role(user_id, app_name, role) ==
    /\ user_id \in DOMAIN users
    /\ user_app_roles' =
           {r \in user_app_roles : ~(r.user_id = user_id /\ r.app_name = app_name)}
           \cup {[user_id |-> user_id, app_name |-> app_name, role |-> role]}
    /\ resp' = [Response("set_user_app_role") EXCEPT !.user_id = user_id]
    /\ UNCHANGED <<users, next_id, tokens, now, ADMIN_EMAILS, audit_logs, audit_log_available, in_flight>>

\* remove_user_app_role
remove_user_app_role(user_id, app_name) ==
    /\ user_id \in DOMAIN users
    /\ user_app_roles' =
           {r \in user_app_roles : ~(r.user_id = user_id /\ r.app_name = app_name)}
    /\ resp' = [Response("remove_user_app_role") EXCEPT !.user_id = user_id]
    /\ UNCHANGED <<users, next_id, tokens, now, ADMIN_EMAILS, audit_logs, audit_log_available, in_flight>>

(***************************************************************************)
(* A call of CommunityUser.get_permissions_for_service on a stored user.   *)
(***************************************************************************)
resolve(user_id, service_name) ==
    /\ user_id \in DOMAIN users
    /\ LET permissions == get_permissions_for_service(users[user_id], service_name)
       IN resp' = [Response("get_permissions_for_service") EXCEPT
                      !.user_id = user_id, !.role = users[user_id].role,
                      !.service = service_name, !.raised = permissions.raised,
                      !.permissions = permissions.value]
    /\ UNCHANGED <<users, user_app_roles, next_id, tokens, now, ADMIN_EMAILS, audit_logs, audit_log_available, in_flight>>

(***************************************************************************)
(* The clock.                                                              *)
(***************************************************************************)
TickSteps == {jwt_expire_minutes}

Tick(d) ==
    /\ now + d <= MaxTicks * jwt_expire_minutes
    /\ now' = now + d
    /\ UNCHANGED <<users, user_app_roles, next_id, tokens, ADMIN_EMAILS, audit_logs, audit_log_available, in_flight, resp>>

(***************************************************************************)
(* The service.                                                            *)
(***************************************************************************)
Init ==
    /\ users = <<>>
    /\ user_app_roles = {}
    /\ next_id = 1
    /\ tokens = {}
    /\ now = 0
    /\ ADMIN_EMAILS \in EnvironmentValues
    /\ resp = Response("start")
    /\ in_flight = {}
    /\ audit_logs = {}
    /\ audit_log_available = TRUE

\* the identities of two distinct subjects, as the provider first reports them
KnownIdentities == {identity \in Identities : identity.full_name # identity.clerk_user_id
                                              /\ identity.phone_number = None}

Login == \E identity \in KnownIdentities : login_with_clerk(identity)
Refresh == \E token \in Presentable : refresh_token(token)
Profile == \E token \in Presentable : get_current_user_profile(token)
AssignRole ==
    \E token \in Presentable, user_id \in 1..MaxUsers, role \in UserRoleValues :
        assign_user_role(token, user_id, role)
Deactivate ==
    \E token \in Presentable, user_id \in 1..MaxUsers : deactivate_user(token, user_id)
Activate ==
    \E token \in Presentable, user_id \in 1..MaxUsers : activate_user(token, user_id)
HardDelete == \E user_id \in 1..MaxUsers : hard_delete_user(user_id)
Clock == \E d \in TickSteps : Tick(d)

\* sessions: login, refresh, authenticated requests, accounts deactivated and deleted
Next ==
    \/ Login
    \/ Refresh
    \/ Profile
    \/ Deactivate
    \/ HardDelete
    \/ Clock

Spec == Init /\ [][Next]_vars

(***************************************************************************)
(* The identity exchanges: every route that turns an identity into a       *)
(* token, with every identity the provider can report.                     *)
(***************************************************************************)
Exchange == \E identity \in Identities : login_with_clerk(identity)
OAuthComplete == \E identity \in Identities : oauth_complete(identity)
MobileLogin == \E identity \in Identities : mobile_login(identity)
TestLogin == \E email \in TestEmails : test_login(email)
SetAppRole ==
    \E user_id \in 1..MaxUsers, input \in AppRoleInputs :
        set_user_app_role(user_id, input[1], input[2])

NextExchange ==
    \/ Exchange
    \/ OAuthComplete
    \/ MobileLogin
    \/ TestLogin
    \/ SetAppRole

SpecExchange == Init /\ [][NextExchange]_vars

(***************************************************************************)
(* Sign-in from the provider's reply on: services/clerk_service.py, then   *)
(* the handlers of routes/auth.py and routes/mobile.py.  A reply is the    *)
(* provider's answer to the presented session, sign-in id or password:     *)
(* the identity it vouches for, or the error it reports.                   *)
(***************************************************************************)
ProviderErrors == {"Invalid session token", "session expired", "connection refused"}

\* identities as they must be to make a write fail: an email another subject
\* already uses, and a subject without any email address
SignInIdentities ==
    { [clerk_user_id |-> "ext_1", email |-> "admin@example.org",
       full_name |-> "A Admin", phone_number |-> None],
      [clerk_user_id |-> "ext_2", email |-> "resident@example.org",
       full_name |-> "R Resident", phone_number |-> None],
      [clerk_user_id |-> "ext_2", email |-> "admin@example.org",
       full_name |-> "R Resident", phone_number |-> None],
      [clerk_user_id |-> "ext_3", email |-> "resident@example.org",
       full_name |-> "T Tenant", phone_number |-> None],
      [clerk_user_id |-> "ext_3", email |-> None,
       full_name |-> "ext_3", phone_number |-> "+15550100"] }

ProviderReplies ==
    {[success |-> TRUE, user |-> identity, error |-> ""] : identity \in SignInIdentities}
    \cup {[success |-> FALSE, error |-> e] : e \in ProviderErrors}

\* "invalid" in str(e).lower() or "expired" in str(e).lower()
invalid_or_expired(error) == error \in {"Invalid session token", "session expired"}

\* ClerkService.verify_clerk_token
verify_clerk_token(reply) ==
    IF reply.success THEN Return(reply.user)
    ELSE IF invalid_or_expired(reply.error)
         THEN HTTPException(401, "Invalid or expired token")
         ELSE HTTPException(500, "Token verification failed")

\* POST /auth/login, the whole handler
login_with_clerk_token(reply) ==
    LET clerk_user_data == verify_clerk_token(reply) IN
    IF clerk_user_data.raised # ""
    THEN /\ resp' = Failed("login_with_clerk", clerk_user_data, 500, "Login failed")
         /\ UNCHANGED <<users, user_app_roles, next_id, tokens, now, ADMIN_EMAILS, audit_logs, audit_log_available, in_flight>>
    ELSE login_with_clerk(clerk_user_data.value)

\* oauth_complete and mobile_login, the whole handlers: complete_oauth_signin
\* and authenticate_user report success or an error, and every exception,
\* the handler's own HTTPException included, leaves as a 400
mobile_sign_in(op, reply) ==
    IF reply.success
    THEN mobile_exchange(op, reply.user)
    ELSE /\ resp' = Failure(op, 400, reply.error)
         /\ UNCHANGED <<users, user_app_roles, next_id, tokens, now, ADMIN_EMAILS, audit_logs, audit_log_available, in_flight>>

SignIn == \E reply \in ProviderReplies : login_with_clerk_token(reply)
OAuthSignIn == \E reply \in ProviderReplies : mobile_sign_in("oauth_complete", reply)
MobileSignIn == \E reply \in ProviderReplies : mobile_sign_in("mobile_login", reply)

NextSignIn ==
    \/ SignIn
    \/ OAuthSignIn
    \/ MobileSignIn

SpecSignIn == Init /\ [][NextSignIn]_vars

(***************************************************************************)
(* Permission resolution: a stored user of any role, resolved for any      *)
(* service.                                                                *)
(***************************************************************************)
StoredUser(role, is_active) ==
    [id |-> 1, clerk_user_id |-> "ext_1", email |-> "resident@example.org",
     full_name |-> "R Resident", unit_number |-> None, phone_number |-> None,
     role |-> role, is_active |-> is_active]

InitPermissions ==
    /\ \E role \in UserRoleValues, is_active \in BOOLEAN :
           users = <<StoredUser(role, is_active)>>
    /\ \E input \in AppRoleInputs :
           user_app_roles \in {{}, {[user_id |-> 1, app_name |-> input[1], role |-> input[2]]}}
    /\ next_id = 2
    /\ tokens = {}
    /\ now = 0
    /\ ADMIN_EMAILS = <<>>
    /\ resp = Response("start")
    /\ in_flight = {}
    /\ audit_logs = {}
    /\ audit_log_available = TRUE

Resolve == \E user_id \in 1..MaxUsers, service_name \in Services : resolve(user_id, service_name)
GrantAppRole ==
    \E input \in AppRoleInputs : set_user_app_role(1, input[1], input[2])
RemoveAppRole ==
    \E input \in AppRoleInputs : remove_user_app_role(1, input[1])

NextPermissions ==
    \/ Resolve
    \/ GrantAppRole
    \/ RemoveAppRole

SpecPermissions == InitPermissions /\ [][NextPermissions]_vars

(***************************************************************************)
(* The service-to-service and listing endpoints, over a store holding one  *)
(* user of any role who logged in while active and may be soft-deleted.    *)
(***************************************************************************)
ServiceTokens == {settings_service_token, "another-service-token", ""}
RequiredPermissions == {<<>>, <<"access">>, <<"access", "user">>}
ClerkIds == {"ext_1", "ext_2"}

InitService ==
    /\ \E role \in UserRoleValues : users = <<StoredUser(role, TRUE)>>
    /\ \E input \in AppRoleInputs :
           user_app_roles \in {{}, {[user_id |-> 1, app_name |-> input[1], role |-> input[2]]}}
    /\ next_id = 2
    /\ tokens = {create_community_token(to_dict(users[1]), 0)}
    /\ now = 0
    /\ ADMIN_EMAILS = <<>>
    /\ resp = Response("start")
    /\ in_flight = {}
    /\ audit_logs = {}
    /\ audit_log_available = TRUE

SoftDelete == \E user_id \in 1..MaxUsers : delete_user(user_id)
GetAllUsers == get_all_users
GetUsersByAppRole ==
    \E input \in AppRoleInputs : \E role \in {None, input[2]} :
        get_users_by_app_role(input[1], role)
GetUserForService ==
    \E user_id \in 1..MaxUsers, service_token \in ServiceTokens, service_name \in Services :
        get_user_for_service(user_id, service_token, service_name)
GetUserByClerkIdForService ==
    \E clerk_user_id \in ClerkIds, service_token \in ServiceTokens, service_name \in Services :
        get_user_by_clerk_id_for_service(clerk_user_id, service_token, service_name)
CheckUserPermissions ==
    \E user_id \in 1..MaxUsers, service_name \in Services,
       required_permissions \in RequiredPermissions, service_token \in ServiceTokens :
        check_user_permissions(user_id, service_name, required_permissions, service_token)
ValidateTokenForService ==
    \E token \in Presentable, service_name \in Services :
        validate_token_for_service(token, service_name)
GetUserPermissions ==
    \E token \in Presentable, user_id \in 1..MaxUsers : get_user_permissions(token, user_id)

NextService ==
    \/ SoftDelete
    \/ GetAllUsers
    \/ GetUsersByAppRole
    \/ GetUserForService
    \/ GetUserByClerkIdForService
    \/ CheckUserPermissions
    \/ ValidateTokenForService
    \/ GetUserPermissions

SpecService == InitService /\ [][NextService]_vars

(***************************************************************************)
(* Tokens over time: login, refresh, logout and role assignment, calls of  *)
(* the two validators, and a clock that visits the instants around the     *)
(* expiry of the tokens issued at time 0.                                  *)
(***************************************************************************)
Instants ==
    {jwt_expire_minutes - 1, jwt_expire_minutes, jwt_expire_minutes + 1,
     refresh_expire_minutes, refresh_expire_minutes + 1}

RoleInputs == {UserRole.STAFF, UserRole.ADMIN}

\* a call of JWTService.validate_token or validate_refresh_token: the claims
\* returned, or the exception raised
validated(op, token, payload) ==
    IF payload.raised # ""
    THEN [Response(op) EXCEPT !.presented = {token}, !.at = now,
                              !.status = payload.status,
                              !.detail = payload.detail, !.raised = payload.raised]
    ELSE [Response(op) EXCEPT !.presented = {token}, !.at = now,
                              !.body = {payload.value}]

Advance(t) ==
    /\ t > now
    /\ now' = t
    /\ UNCHANGED <<users, user_app_roles, next_id, tokens, ADMIN_EMAILS, audit_logs, audit_log_available, in_flight, resp>>

InitTokens ==
    /\ users = <<>>
    /\ user_app_roles = {}
    /\ next_id = 1
    /\ tokens = {}
    /\ now = 0
    /\ ADMIN_EMAILS \in EnvironmentValues \ {<<>>}
    /\ resp = Response("start")
    /\ in_flight = {}
    /\ audit_logs = {}
    /\ audit_log_available = TRUE

\* the identity on the allow-list
AdminIdentities == {identity \in KnownIdentities : identity.email \in Range(admin_emails)}

AdminLogin == \E identity \in AdminIdentities : login_with_clerk(identity)
Logout == \E token \in Presentable : logout(token)
ChangeRole ==
    \E token \in Presentable, user_id \in 1..MaxUsers, role \in RoleInputs :
        assign_user_role(token, user_id, role)
ValidateToken ==
    \E token \in Presentable :
        /\ resp' = validated("validate_token", token, validate_token(token, now))
        /\ UNCHANGED <<users, user_app_roles, next_id, tokens, now, ADMIN_EMAILS, audit_logs, audit_log_available, in_flight>>
ValidateRefreshToken ==
    \E token \in Presentable :
        /\ resp' = validated("validate_refresh_token", token,
                             validate_refresh_token(token, now))
        /\ UNCHANGED <<users, user_app_roles, next_id, tokens, now, ADMIN_EMAILS, audit_logs, audit_log_available, in_flight>>
Later == \E t \in Instants : Advance(t)

NextTokens ==
    \/ AdminLogin
    \/ Refresh
    \/ Logout
    \/ ChangeRole
    \/ ValidateToken
    \/ ValidateRefreshToken
    \/ Later

SpecTokens == InitTokens /\ [][NextTokens]_vars

(***************************************************************************)
(* Properties of permission resolution (SpecPermissions).                  *)
(***************************************************************************)
AdminPermissions == {"access", "admin", "manage_users", "view_logs", "super_admin"}

Resolved == resp.op = "get_permissions_for_service"

\* C1: for a user whose role is SUPER_ADMIN or the legacy ADMIN, the resolver
\* returns, for every service name, the set {access, admin, manage_users,
\* view_logs, super_admin}, whatever the service's own table says.
C1_AdminRolesFixedSet ==
    (Resolved /\ resp.role \in {UserRole.SUPER_ADMIN, UserRole.ADMIN})
        => resp.raised = "" /\ Range(resp.permissions) = AdminPermissions

\* the legacy ADMIN role was resolved for "arc", a service with a table of its own
C1_Witness ==
    Resolved /\ resp.role = UserRole.ADMIN /\ resp.service = "arc" /\ resp.raised = ""

\* C8: for a user of role HOMEOWNER the resolver, asked for "arc", returns
\* {access, submit, view_own}: it returns a value and does not fail.
C8_HomeownerArc ==
    (Resolved /\ resp.role = UserRole.HOMEOWNER /\ resp.service = "arc")
        => resp.raised = "" /\ Range(resp.permissions) = {"access", "submit", "view_own"}

\* C9: for every service name the resolver returns for a RESIDENT the very
\* permission set it returns for a HOMEOWNER.
C9_ResidentAsHomeowner ==
    (Resolved /\ resp.role = UserRole.RESIDENT)
        => LET homeowner == get_permissions_for_service(
                                [users[resp.user_id] EXCEPT !.role = UserRole.HOMEOWNER],
                                resp.service)
           IN /\ resp.raised = ""
              /\ homeowner.raised = ""
              /\ Range(resp.permissions) = Range(homeowner.value)

\* C10: for every service name the resolver returns for a STAFF user the very
\* permission set it returns for a user of the role QR_SCANNER.
C10_StaffAsQrScanner ==
    (Resolved /\ resp.role = UserRole.STAFF)
        => LET qr_scanner == get_permissions_for_service(
                                 [users[resp.user_id] EXCEPT !.role = "qr_scanner"],
                                 resp.service)
           IN /\ resp.raised = ""
              /\ qr_scanner.raised = ""
              /\ Range(resp.permissions) = Range(qr_scanner.value)

\* C11: for a service name other than arc, qr_gate and community_auth and a
\* role other than SUPER_ADMIN and ADMIN, the resolver returns {guest} for
\* GUEST, {access, user} for HOMEOWNER and RESIDENT, {access} for any other role.
C11_DefaultTable ==
    (Resolved /\ resp.service \notin {"arc", "qr_gate", "community_auth"}
        /\ resp.role \notin {UserRole.SUPER_ADMIN, UserRole.ADMIN})
        => /\ resp.raised = ""
           /\ Range(resp.permissions) =
                  IF resp.role = UserRole.GUEST THEN {"guest"}
                  ELSE IF resp.role \in {UserRole.HOMEOWNER, UserRole.RESIDENT}
                      THEN {"access", "user"}
                  ELSE {"access"}

\* a RESIDENT was resolved for the unknown service "billing"
C11_Witness ==
    /\ Resolved /\ resp.service = "billing" /\ resp.role = UserRole.RESIDENT
    /\ resp.permissions = <<"access", "user">>

(***************************************************************************)
(* Properties of sessions (Spec).                                          *)
(***************************************************************************)
\* token passes signature and expiry verification now
Verifies(token) == decode(token, jwt_secret_key, now).raised = ""

\* C2: a refresh token presented where an access token is expected is
\* rejected: get_current_user does not authenticate the request.
C2_RefreshTokenNotAccepted ==
    (resp.op = "get_current_user_profile"
        /\ \E token \in resp.presented : token.payload.type = "refresh")
        => resp.status = 401

\* C3: the refresh flow answers a verifiable token whose type is not
\* "refresh" with 401 'Invalid token type', and issues no token.
C3_WrongTypeRejected ==
    (resp.op = "refresh_token"
        /\ \E token \in resp.presented :
               Verifies(token) /\ token.payload.type # "refresh")
        => resp.status = 401 /\ resp.detail = "Invalid token type" /\ resp.issued = {}

\* C4: a refresh with a valid refresh token whose user is absent from the
\* store or inactive is answered 401, and no token is issued.
C4_RefreshNeedsActiveUser ==
    [][\A token \in Presentable :
          LET payload == validate_refresh_token(token, now) IN
          (/\ payload.raised = ""
           /\ LET found == get_user_by_id(payload.value.user_id)
              IN found = {} \/ \E u \in found : ~u.is_active
           /\ refresh_token(token))
              => resp'.status = 401 /\ resp'.issued = {} /\ tokens' = tokens]_vars

\* a deactivated user presented a valid refresh token and was answered 401
C4_Witness ==
    /\ resp.op = "refresh_token"
    /\ resp.status = 401
    /\ resp.issued = {}
    /\ \E token \in resp.presented :
           /\ validate_refresh_token(token, now).raised = ""
           /\ \E u \in get_user_by_id(token.payload.user_id) : ~u.is_active

(***************************************************************************)
(* Properties of the identity exchanges (SpecExchange).                    *)
(***************************************************************************)
\* the addresses written in ADMIN_EMAILS
ConfiguredEmails == Range(ADMIN_EMAILS) \ {","}

\* C5: a token issued with role SUPER_ADMIN is issued for an allow-listed
\* email or to a stored user holding that role: no route grants SUPER_ADMIN
\* for a hard-coded email.
C5_AllowListOnly ==
    \A token \in resp.issued :
        (token.payload.type = "community_access"
            /\ token.payload.role = UserRole.SUPER_ADMIN)
            => \/ token.payload.email \in Range(admin_emails)
               \/ \E u \in get_user_by_clerk_id(token.payload.clerk_user_id) :
                      u.role = UserRole.SUPER_ADMIN

\* C6: a user created by an exchange has role SUPER_ADMIN if the email is in
\* the configured allow-list and HOMEOWNER otherwise; with ADMIN_EMAILS unset
\* or empty no created user has SUPER_ADMIN.
C6_InitialRole ==
    [][next_id' # next_id
          => LET created == users'[next_id]
             IN created.role = IF created.email \in ConfiguredEmails
                               THEN UserRole.SUPER_ADMIN ELSE UserRole.HOMEOWNER]_vars

NothingReturned(response) == response.body = {} /\ response.permissions = <<>>

\* C12: get_user_for_service, get_user_by_clerk_id_for_service and
\* check_user_permissions, called with an X-Service-Token other than the
\* configured secret, answer 403 and return no user data and no permission
\* decision, for every service name and whether or not the user exists.
C12_ServiceTokenGate ==
    [][\A service_token \in ServiceTokens \ {settings_service_token},
          service_name \in Services :
          /\ \A user_id \in 1..MaxUsers :
                 get_user_for_service(user_id, service_token, service_name)
                     => resp'.status = 403 /\ NothingReturned(resp')
          /\ \A clerk_user_id \in ClerkIds :
                 get_user_by_clerk_id_for_service(clerk_user_id, service_token,
                                                  service_name)
                     => resp'.status = 403 /\ NothingReturned(resp')
          /\ \A user_id \in 1..MaxUsers, required_permissions \in RequiredPermissions :
                 check_user_permissions(user_id, service_name, required_permissions,
                                        service_token)
                     => resp'.status = 403 /\ NothingReturned(resp')]_vars

\* a request for a user the store does not hold was answered 403, not 404
C12_Witness ==
    /\ resp.op = "get_user_for_service"
    /\ resp.status = 403
    /\ resp.detail = "Invalid service token"
    /\ get_user_by_id(resp.user_id) = {}

\* C13: check_user_permissions with the valid service token returns
\* authorized = true exactly when the user exists, is active and holds every
\* required permission in the set resolved for (user, service_name), returns
\* authorized = false for an absent or inactive user, and returns the
\* resolved set as user_permissions.
C13_PermissionDecision ==
    [][\A user_id \in 1..MaxUsers, service_name \in Services,
          required_permissions \in RequiredPermissions :
          check_user_permissions(user_id, service_name, required_permissions,
                                 settings_service_token)
              => \E decision \in resp'.body :
                     LET found == get_user_by_id(user_id) IN
                     IF found = {} \/ \E u \in found : ~u.is_active
                     THEN decision.authorized = FALSE
                     ELSE LET resolved == get_permissions_for_service(
                                              CHOOSE u \in found : TRUE, service_name)
                          IN /\ resolved.raised = ""
                             /\ decision.authorized =
                                    all_in(required_permissions, resolved.value)
                             /\ decision.user_permissions = resolved.value]_vars

\* C14: a soft-deleted user is in the result of no listing operation, no
\* permission endpoint returns a permission set for that user, and
\* get_user_by_id still returns the record.
C14_InactiveExcluded ==
    \A u \in Range(users) :
        ~u.is_active
            => /\ resp.op \in {"get_all_users", "get_users_by_app_role"}
                      => u \notin resp.body
               /\ (resp.op \in {"get_user_for_service", "get_user_by_clerk_id_for_service",
                                "get_user_permissions", "check_user_permissions",
                                "validate_token_for_service"}
                      /\ resp.user_id = u.id)
                      => \A b \in resp.body :
                             DOMAIN b \cap {"permissions", "user_permissions"} = {}
               /\ get_user_by_id(u.id) = {u}

(***************************************************************************)
(* Properties of tokens over time (SpecTokens).                            *)
(***************************************************************************)
\* the instants at which a token issued at iat is looked at
InstantsFrom(iat) == {t \in Instants \cup {iat} : t >= iat}

\* C15: the access token issued for a user snapshot validates, at every time
\* from its issuance and before its exp, to claims equal to the snapshot on
\* user_id, clerk_user_id, email, full_name, role, unit_number and is_active,
\* with iss "community-auth-service" and type "community_access".
C15_RoundTrip ==
    \A token \in resp.issued :
        token.payload.type = "community_access"
            => \E u \in get_user_by_id(token.payload.user_id) :
                   \A t \in InstantsFrom(token.payload.iat) :
                       t < token.payload.exp
                           => LET claims == validate_token(token, t) IN
                              /\ claims.raised = ""
                              /\ claims.value.user_id = u.id
                              /\ claims.value.clerk_user_id = u.clerk_user_id
                              /\ claims.value.email = u.email
                              /\ claims.value.full_name = u.full_name
                              /\ claims.value.role = u.role
                              /\ claims.value.unit_number = u.unit_number
                              /\ claims.value.is_active = u.is_active
                              /\ claims.value.iss = "community-auth-service"
                              /\ claims.value.type = "community_access"

\* the token of a SUPER_ADMIN, looked at after its issuance and before its exp
C15_Witness ==
    \E token \in resp.issued :
        /\ token.payload.type = "community_access"
        /\ token.payload.role = UserRole.SUPER_ADMIN
        /\ token.payload.iat < now
        /\ now < token.payload.exp
        /\ validate_token(token, now).raised = ""

\* a validator was called, at resp.at, with a token the service signed for it
ValidatorCalled(token) ==
    /\ token \in resp.presented \cap tokens
    /\ \/ resp.op = "validate_token" /\ token.payload.type = "community_access"
       \/ resp.op = "validate_refresh_token" /\ token.payload.type = "refresh"

\* C16: expiry is an exclusive boundary: validation of an access or refresh
\* token succeeds only while now < exp, and a token validated at a clock
\* value equal to its exp is rejected as expired.
C16_ExclusiveBoundary ==
    \A token \in resp.presented :
        (ValidatorCalled(token) /\ resp.body # {}) => resp.at < token.payload.exp

\* C17: an access token that validates keeps validating, to the claims it was
\* issued with, through every later step (a logout by its user, a change of
\* the user's role) as long as its exp is not reached: no step but the clock
\* changes what validate_token returns, which never consults the store.
C17_TokensOutliveLogoutAndRoleChange ==
    [][\A token \in tokens :
          (/\ token.payload.type = "community_access"
           /\ validate_token(token, now) = Return(token.payload)
           /\ now' < token.payload.exp)
              => /\ token \in tokens'
                 /\ validate_token(token, now)' = Return(token.payload)]_vars

\* after its user's role was changed, the user logged out with the token, and
\* the token still validates to the role captured at issuance
C17_Witness ==
    /\ resp.op = "logout"
    /\ \E token \in resp.presented \cap tokens :
           /\ token.payload.type = "community_access"
           /\ \E u \in get_user_by_id(token.payload.user_id) :
                  u.role # token.payload.role
           /\ token.payload.iat < now
           /\ validate_token(token, now) = Return(token.payload)

\* C18: a successful refresh returns an access token and a refresh token
\* issued now, the access token built from the user's current store record
\* (role, email, is_active), the refresh token carrying the user id, its type
\* and a 30-day expiry; the refresh token presented is kept and validates for
\* further refreshes up to its own expiry.
C18_RefreshRotation ==
    [][\A token \in Presentable :
          (refresh_token(token) /\ resp'.status = 200)
              => \E u \in get_user_by_id(token.payload.user_id) :
                     /\ \E access \in resp'.issued :
                            /\ access.payload.type = "community_access"
                            /\ access.payload.user_id = u.id
                            /\ access.payload.role = u.role
                            /\ access.payload.email = u.email
                            /\ access.payload.is_active = u.is_active
                            /\ access.payload.iat = now
                            /\ access.payload.exp = now + jwt_expire_minutes
                     /\ \E refresh \in resp'.issued :
                            /\ refresh.payload =
                                   [user_id |-> u.id, type |-> "refresh", iat |-> now,
                                    exp |-> now + refresh_expire_minutes,
                                    iss |-> "community-auth-service"]
                     /\ Cardinality(resp'.issued) = 2
                     /\ resp'.issued \subseteq tokens'
                     /\ tokens \subseteq tokens'
                     /\ \A t \in InstantsFrom(now) :
                            t < token.payload.exp
                                => validate_refresh_token(token, t)' = Return(token.payload)]_vars

\* a refresh token issued before the user's role was changed was used after
\* it: the new access token carries the current role, and the refresh token
\* presented still validates
C18_Witness ==
    /\ resp.op = "refresh_token"
    /\ resp.status = 200
    /\ \E token \in resp.presented, access \in resp.issued :
           /\ access.payload.type = "community_access"
           /\ access.payload.iat > token.payload.iat
           /\ \E u \in get_user_by_id(token.payload.user_id) :
                  access.payload.role = u.role
           /\ \E old \in tokens :
                  /\ old.payload.type = "community_access"
                  /\ old.payload.user_id = token.payload.user_id
                  /\ old.payload.role # access.payload.role
           /\ validate_refresh_token(token, access.payload.iat) = Return(token.payload)

(***************************************************************************)
(* More properties of the identity exchanges (SpecExchange).               *)
(***************************************************************************)
\* the rows that already record identity as it is
Recorded(identity) ==
    {i \in DOMAIN users :
        /\ users[i].clerk_user_id = identity.clerk_user_id
        /\ users[i].email = identity.email
        /\ users[i].full_name = identity.full_name
        /\ identity.phone_number \in {None, users[i].phone_number}}

\* C19: an exchange run again with the identity the store already records
\* succeeds, finds the user by the external subject id and creates nothing:
\* the table is as it was, with exactly one row of that external id and
\* exactly one of that email.
C19_ExchangeIdempotent ==
    [][\A identity \in Identities :
          (/\ Recorded(identity) # {}
           /\ \/ login_with_clerk(identity)
              \/ oauth_complete(identity)
              \/ mobile_login(identity))
              => /\ resp'.status = 200
                 /\ resp'.user_id \in Recorded(identity)
                 /\ next_id' = next_id
                 /\ users' = users
                 /\ Cardinality({i \in DOMAIN users' :
                        users'[i].clerk_user_id = identity.clerk_user_id}) = 1
                 /\ Cardinality({i \in DOMAIN users' :
                        users'[i].email = identity.email}) = 1]_vars

\* subject ext_1, who was given an app role after the first login, logged in
\* again: still one row
C19_Witness ==
    /\ resp.op = "login_with_clerk"
    /\ resp.status = 200
    /\ \E u \in get_user_by_id(resp.user_id) :
           /\ u.clerk_user_id = "ext_1"
           /\ app_roles_of(u.id) # {}
           /\ \A w \in Range(users) : w.clerk_user_id = u.clerk_user_id => w = u

(***************************************************************************)
(* Properties of sign-in (SpecSignIn).                                     *)
(***************************************************************************)
\* the write the handler is about to make cannot be committed: the create of
\* a subject not yet stored, or (updates) the update of a stored one
WriteFails(identity, updates) ==
    LET mine == {i \in DOMAIN users : users[i].clerk_user_id = identity.clerk_user_id} IN
    IF mine = {}
    THEN identity.email = None \/ \E i \in DOMAIN users : users[i].email = identity.email
    ELSE /\ updates
         /\ identity.email # None
         /\ \E i \in DOMAIN users \ mine : users[i].email = identity.email

\* C20: on every sign-in path, when the provider does not vouch for the
\* identity or the write that creates or updates the user fails, the response
\* is a failure (status 400 or above), carries no token, and no token was
\* made and no row written.
C20_FailureIssuesNothing ==
    [][\A reply \in ProviderReplies :
          (\/ /\ login_with_clerk_token(reply)
              /\ (~reply.success \/ WriteFails(reply.user, TRUE))
           \/ /\ \/ mobile_sign_in("oauth_complete", reply)
                 \/ mobile_sign_in("mobile_login", reply)
              /\ (~reply.success \/ WriteFails(reply.user, FALSE)))
              => /\ resp'.status >= 400
                 /\ resp'.issued = {}
                 /\ tokens' = tokens
                 /\ users' = users
                 /\ next_id' = next_id]_vars

\* a create or update refused by the store after a first user signed in
C20_Witness ==
    /\ resp.raised = "IntegrityError"
    /\ resp.status \in {400, 500}
    /\ resp.issued = {}
    /\ users # <<>>
    /\ tokens # {}

(***************************************************************************)
(* main_simple.py: the administration endpoints over the same tables.      *)
(***************************************************************************)
\* d[k] of a dict: the value, or KeyError
getitem(d, k) == IF k \in DOMAIN d THEN Return(d[k]) ELSE Raise("KeyError")

\* valid_roles of admin_update_user_roles
valid_roles ==
    [arc |-> <<"owner", "reviewer", "admin">>,
     qr |-> <<"admin", "scanner", "owner", "guest">>]

\* the caller test of the admin endpoints: x_user_email or "user@example.com"
admin_caller(x_user_email) ==
    (IF x_user_email \in {None, ""} THEN "user@example.com" ELSE x_user_email)
        = "jacob@reider.us"

\* a JSON body returned with status 200
Json(op, body) == [Response(op) EXCEPT !.body = {body}]

\* POST /admin/api/user-roles; None stands for a field left out
admin_update_user_roles(x_user_email, target_email, app, role) ==
    /\ resp' =
        IF ~admin_caller(x_user_email)
        THEN Json("admin_update_user_roles", [error |-> "Unauthorized"])
        ELSE IF target_email \in {None, ""} \/ app \in {None, ""} \/ role \in {None, ""}
        THEN Json("admin_update_user_roles",
                  [error |-> "Missing required fields: email, app, role"])
        ELSE IF app \notin DOMAIN valid_roles \/ role \notin Range(valid_roles[app])
        THEN LET listed == getitem(valid_roles, app) IN
             IF listed.raised # ""
             THEN Failed("admin_update_user_roles", listed, 500, "Internal Server Error")
             ELSE Json("admin_update_user_roles",
                       [error |-> "Invalid role", role |-> role, app |-> app,
                        valid_roles |-> listed.value])
        ELSE Json("admin_update_user_roles",
                  [success |-> TRUE, user |-> target_email, app |-> app,
                   role |-> role, updated_by |-> x_user_email])
    /\ UNCHANGED <<users, user_app_roles, next_id, tokens, now, ADMIN_EMAILS, audit_logs, audit_log_available, in_flight>>

\* POST /admin/api/users: the row is created with clerk_user_id "", to be
\* filled at the first login; supabase_client.create_user returns None when
\* the table refuses the row
admin_add_user(x_user_email, email, role) ==
    IF ~admin_caller(x_user_email)
    THEN /\ resp' = Json("admin_add_user", [error |-> "Unauthorized"])
         /\ UNCHANGED <<users, user_app_roles, next_id, tokens, now, ADMIN_EMAILS, audit_logs, audit_log_available, in_flight>>
    ELSE IF email \in {None, ""}
    THEN /\ resp' = Json("admin_add_user", [error |-> "Email is required"])
         /\ UNCHANGED <<users, user_app_roles, next_id, tokens, now, ADMIN_EMAILS, audit_logs, audit_log_available, in_flight>>
    ELSE LET user == create_user("", email, email, role, None, None) IN
         IF user.raised # ""
         THEN /\ resp' = Json("admin_add_user", [error |-> "Failed to create user"])
              /\ UNCHANGED <<users, user_app_roles, next_id, tokens, now, ADMIN_EMAILS, audit_logs, audit_log_available, in_flight>>
         ELSE /\ next_id <= MaxUsers
              /\ users' = written(user.value)
              /\ next_id' = next_id + 1
              /\ resp' = [Json("admin_add_user", [success |-> TRUE, user |-> user.value])
                              EXCEPT !.user_id = user.value.id, !.role = role]
              /\ UNCHANGED <<user_app_roles, tokens, now, ADMIN_EMAILS, audit_logs, audit_log_available, in_flight>>

CallerEmails == {None, "jacob@reider.us", "resident@example.org"}
TargetEmails == {None, "resident@example.org", "boss@example.org"}
AppNames == {None, "arc", "qr", "qr_gate", "billing"}
AppRoleNames == {None, "owner", "reviewer", "admin", "scanner", "guest", "superuser"}

AdminUpdateUserRoles ==
    \E x_user_email \in CallerEmails, target_email \in TargetEmails,
       app \in AppNames, role \in AppRoleNames :
        admin_update_user_roles(x_user_email, target_email, app, role)

AdminAddUser ==
    \E x_user_email \in CallerEmails, email \in TargetEmails,
       role \in {UserRole.USER, UserRole.ADMIN} :
        admin_add_user(x_user_email, email, role)

NextAdmin ==
    \/ AdminUpdateUserRoles
    \/ AdminAddUser

SpecAdmin == Init /\ [][NextAdmin]_vars

(***************************************************************************)
(* Properties of the administration endpoints (SpecAdmin).                 *)
(***************************************************************************)
\* the fixed table holds the pair
InTable(app, role) == app \in DOMAIN valid_roles /\ role \in Range(valid_roles[app])

\* C21: a role-assignment request of the administrator, complete, whose
\* (app, role) pair is not in the fixed table - the role unknown for a known
\* app, or the app itself unknown - is answered with the Invalid error that
\* lists valid roles, and never with success.
C21_InvalidPairRejected ==
    [][\A target_email \in TargetEmails \ {None}, app \in AppNames \ {None},
          role \in AppRoleNames \ {None} :
          (/\ ~InTable(app, role)
           /\ admin_update_user_roles("jacob@reider.us", target_email, app, role))
              => /\ resp'.status = 200
                 /\ \E answer \in resp'.body :
                        /\ "success" \notin DOMAIN answer
                        /\ answer.error = "Invalid role"
                        /\ answer.valid_roles \in Range(valid_roles)]_vars

(***************************************************************************)
(* Requests in progress.  Each request has its own database session        *)
(* (utils/database.py, get_db) and so its own transaction: what it has     *)
(* executed is seen by the others once it commits.  A worker's pool has     *)
(* one connection, so the requests that overlap are those of different     *)
(* workers of the deployment.                                              *)
(***************************************************************************)
MaxInFlight == 2
MaxAppRoleId == 4

\* the number a new request gets
free_request == CHOOSE n \in 1..MaxInFlight : \A r \in in_flight : r.id # n

\* the rows of user_app_roles a delete statement matches
matching(user_id, app_name) ==
    {r \in user_app_roles : r.user_id = user_id /\ r.app_name = app_name}

\* rows deleted by a transaction that has not committed yet are locked
locked == UNION {r.deleted : r \in {q \in in_flight : q.op = "set_user_app_role"}}

\* the primary key of a new user_app_roles row
next_app_role_id ==
    IF user_app_roles = {} THEN 1
    ELSE 1 + (CHOOSE n \in {r.id : r \in user_app_roles} :
                 \A r \in user_app_roles : r.id <= n)

\* set_user_app_role up to its first await: "First, remove existing role for
\* this app", executed in the request's transaction
set_user_app_role_delete(user_id, app_name, role) ==
    /\ Cardinality(in_flight) < MaxInFlight
    /\ user_id \in DOMAIN users
    /\ matching(user_id, app_name) \cap locked = {}
    /\ in_flight' = in_flight \cup
           {[id |-> free_request, op |-> "set_user_app_role", user_id |-> user_id,
             app_name |-> app_name, role |-> role,
             deleted |-> matching(user_id, app_name)]}
    /\ UNCHANGED <<users, user_app_roles, next_id, tokens, now, ADMIN_EMAILS, audit_logs, audit_log_available, resp>>

\* the row a request adds
app_role_of(request) ==
    [id |-> next_app_role_id, user_id |-> request.user_id,
     app_name |-> request.app_name, role |-> request.role]

\* the table after the commit of a delete and an insert
committed(deleted, inserted) == (user_app_roles \ deleted) \cup inserted

\* set_user_app_role from "Add new role" on: db.add(app_role), db.commit()
set_user_app_role_insert(request) ==
    /\ request.op = "set_user_app_role"
    /\ next_app_role_id <= MaxAppRoleId
    /\ user_app_roles' = committed(request.deleted, {app_role_of(request)})
    /\ in_flight' = in_flight \ {request}
    /\ resp' = [Response("set_user_app_role") EXCEPT
                    !.user_id = request.user_id, !.body = {app_role_of(request)}]
    /\ UNCHANGED <<users, next_id, tokens, now, ADMIN_EMAILS, audit_logs, audit_log_available>>

\* remove_user_app_role: one delete statement, committed; it waits for the
\* rows another transaction has locked
remove_user_app_role_committed(user_id, app_name) ==
    /\ user_id \in DOMAIN users
    /\ matching(user_id, app_name) \cap locked = {}
    /\ user_app_roles' = committed(matching(user_id, app_name), {})
    /\ resp' = [Response("remove_user_app_role") EXCEPT !.user_id = user_id]
    /\ UNCHANGED <<users, next_id, tokens, now, ADMIN_EMAILS, audit_logs, audit_log_available, in_flight>>

InitAppRoles ==
    /\ users = <<StoredUser(UserRole.HOMEOWNER, TRUE)>>
    /\ user_app_roles = {}
    /\ next_id = 2
    /\ tokens = {}
    /\ now = 0
    /\ ADMIN_EMAILS = <<>>
    /\ resp = Response("start")
    /\ in_flight = {}
    /\ audit_logs = {}
    /\ audit_log_available = TRUE

AppRolePairs == {<<"arc", "owner">>, <<"arc", "reviewer">>, <<"qr", "scanner">>}

BeginSetAppRole ==
    \E user_id \in 1..MaxUsers, input \in AppRolePairs :
        set_user_app_role_delete(user_id, input[1], input[2])

CommitSetAppRole == \E request \in in_flight : set_user_app_role_insert(request)

RemoveCommitted ==
    \E user_id \in 1..MaxUsers, input \in AppRolePairs :
        remove_user_app_role_committed(user_id, input[1])

NextAppRoles ==
    \/ BeginSetAppRole
    \/ CommitSetAppRole
    \/ RemoveCommitted

SpecAppRoles == InitAppRoles /\ [][NextAppRoles]_vars

(***************************************************************************)
(* Properties of the app-role table (SpecAppRoles).                        *)
(***************************************************************************)
\* C22: after any sequence or interleaving of set_user_app_role (a delete
\* step, then an insert step) and remove_user_app_role calls the table holds
\* at most one row for each (user_id, app_name), and after a completed set
\* it holds the role of that set.
C22_OneRolePerUserAndApp ==
    [][/\ \A row \in user_app_roles', other \in user_app_roles' :
              (row.user_id = other.user_id /\ row.app_name = other.app_name)
                  => row = other
       /\ \A request \in in_flight :
              set_user_app_role_insert(request)
                  => \E row \in user_app_roles' :
                         /\ row.user_id = request.user_id
                         /\ row.app_name = request.app_name
                         /\ row.role = request.role]_vars

(***************************************************************************)
(* routes/community.py                                                     *)
(***************************************************************************)
\* POST /community/announcements: the announcement is logged, nothing is sent
send_announcement(token) ==
    LET admin_user == require_admin(token) IN
    /\ IF admin_user.raised # ""
       THEN /\ resp' = Presenting(token, Failed("send_announcement", admin_user, 500, ""))
            /\ UNCHANGED audit_logs
       ELSE LET logged == log_user_action(users, admin_user.value.id, "community_auth",
                                          "announcement_sent", "community")
            IN IF logged.raised # ""
               THEN /\ resp' = Presenting(token, Failed("send_announcement", logged, 500,
                                                        "Internal Server Error"))
                    /\ UNCHANGED audit_logs
               ELSE /\ audit_logs' = logged.value
                    /\ resp' = [Response("send_announcement") EXCEPT
                                    !.presented = {token},
                                    !.user_id = admin_user.value.id,
                                    !.detail = "Announcement logged successfully"]
    /\ UNCHANGED <<users, user_app_roles, next_id, tokens, now, ADMIN_EMAILS, audit_log_available, in_flight>>

(***************************************************************************)
(* The audited operations, with an audit_logs table that can stop taking   *)
(* writes.                                                                 *)
(***************************************************************************)
\* the store starts or stops accepting writes to audit_logs
audit_log_outage ==
    /\ audit_log_available' = ~audit_log_available
    /\ UNCHANGED <<users, user_app_roles, next_id, tokens, now, ADMIN_EMAILS, resp, audit_logs, in_flight>>

InitAudit ==
    /\ users = <<>>
    /\ user_app_roles = {}
    /\ next_id = 1
    /\ tokens = {}
    /\ now = 0
    /\ ADMIN_EMAILS \in EnvironmentValues \ {<<>>}
    /\ resp = Response("start")
    /\ in_flight = {}
    /\ audit_logs = {}
    /\ audit_log_available = TRUE

MobileLoginKnown == \E identity \in KnownIdentities : mobile_login(identity)
SendAnnouncement == \E token \in Presentable : send_announcement(token)
ActivateUser ==
    \E token \in Presentable, user_id \in 1..MaxUsers : activate_user(token, user_id)

ChangeToStaff ==
    \E token \in Presentable, user_id \in 1..MaxUsers :
        assign_user_role(token, user_id, UserRole.STAFF)

\* the bounds on the rows of audit_logs and on the tokens kept in this model
MaxAuditRows == 2
MaxAuditTokens == 3
AuditRoom ==
    /\ Cardinality(audit_logs') <= MaxAuditRows
    /\ Cardinality(tokens') <= MaxAuditTokens

NextAudit ==
    \/ AdminLogin /\ AuditRoom
    \/ MobileLoginKnown /\ AuditRoom
    \/ Logout /\ AuditRoom
    \/ ChangeToStaff /\ AuditRoom
    \/ Deactivate /\ AuditRoom
    \/ ActivateUser /\ AuditRoom
    \/ SendAnnouncement /\ AuditRoom
    \/ audit_log_outage

SpecAudit == InitAudit /\ [][NextAudit]_vars

(***************************************************************************)
(* Properties of the audit log (SpecAudit).                                *)
(***************************************************************************)
\* the action each audited operation logs
AuditedActions ==
    [login_with_clerk |-> "login", mobile_login |-> "login", logout |-> "logout",
     assign_user_role |-> "role_changed", activate_user |-> "user_activated",
     deactivate_user |-> "user_deactivated", send_announcement |-> "announcement_sent"]

\* the user acting in the request answered by response: the user logged in,
\* or the user of the access token presented
ActingUser(response) ==
    IF response.op \in {"login_with_clerk", "mobile_login", "logout"}
    THEN {response.user_id}
    ELSE {token.payload.user_id : token \in response.presented}

\* C23: every successful login, logout, global-role change, activation,
\* deactivation and announcement leaves an audit-log entry naming the acting
\* user and the action, and no step modifies or removes an entry: the log
\* only grows.
C23_AuditTrail ==
    [][/\ audit_logs \subseteq audit_logs'
       /\ (/\ resp'.op \in DOMAIN AuditedActions
           /\ resp'.status = 200
           /\ resp' # resp
           /\ 0 \notin ActingUser(resp'))
              => \E row \in audit_logs' :
                     /\ row.user_id \in ActingUser(resp')
                     /\ row.action = AuditedActions[resp'.op]]_vars

\* C24: when the write to audit_logs fails during login, role assignment,
\* activation or deactivation, the operation itself still completes and its
\* success result is returned: the audit failure never turns it into a
\* failure response.
C24_AuditFailureDoesNotBlock ==
    [][~audit_log_available =>
          /\ \A identity \in KnownIdentities :
                 (login_with_clerk(identity) /\ get_or_create(identity).raised = "")
                     => (resp'.status = 200 /\ resp'.issued # {})
          /\ \A token \in Presentable, user_id \in DOMAIN users :
                 (/\ require_admin(token).raised = ""
                  /\ \/ assign_user_role(token, user_id, UserRole.STAFF)
                     \/ activate_user(token, user_id)
                     \/ /\ deactivate_user(token, user_id)
                        /\ user_id # require_admin(token).value.id)
                     => (resp'.status = 200 /\ resp'.raised = "")]_vars

(***************************************************************************)
(* More properties of permission resolution (SpecPermissions).             *)
(***************************************************************************)
\* users that agree with user on the global role (and so on everything the
\* resolver may read) and differ in id, email, is_active
SameRole(user) ==
    {[user EXCEPT !.id = id, !.email = email, !.is_active = is_active] :
        id \in {user.id, user.id + 1},
        email \in {user.email, "boss@example.org"},
        is_active \in BOOLEAN}

\* C25: resolution depends on (global role, app-role map, service name)
\* only: what a call of get_permissions_for_service gives for a stored user
\* is what it gives for every user of the same role, whatever their
\* is_active, email or id and whatever was called before.
C25_ResolutionDeterministic ==
    [][\A user_id \in DOMAIN users, service_name \in Services :
          resolve(user_id, service_name)
              => \A other \in SameRole(users[user_id]) :
                     LET permissions == get_permissions_for_service(other, service_name)
                     IN /\ permissions.raised = resp'.raised
                        /\ permissions.value = resp'.permissions]_vars

\* an inactive user resolved to a non-empty set, the set of an active user
\* of that role with another id
C25_Witness ==
    /\ resp.op = "get_permissions_for_service"
    /\ resp.raised = ""
    /\ resp.permissions # <<>>
    /\ \E user \in get_user_by_id(resp.user_id) :
           /\ ~user.is_active
           /\ resp.permissions =
                  get_permissions_for_service(
                      [user EXCEPT !.is_active = TRUE, !.id = user.id + 1],
                      resp.service).value

(***************************************************************************)
(* Administrators: two stored accounts with their access tokens, and the   *)
(* routes behind require_admin and require_super_admin.                    *)
(***************************************************************************)
StoredAccount(id, role) ==
    [id |-> id, clerk_user_id |-> IF id = 1 THEN "ext_1" ELSE "ext_2",
     email |-> IF id = 1 THEN "admin@example.org" ELSE "boss@example.org",
     full_name |-> IF id = 1 THEN "A Admin" ELSE "B Boss",
     unit_number |-> None, phone_number |-> None, role |-> role, is_active |-> TRUE]

InitTwoAdmins ==
    /\ \E first \in {UserRole.SUPER_ADMIN, UserRole.ADMIN},
          second \in {UserRole.SUPER_ADMIN, UserRole.ADMIN, UserRole.HOMEOWNER} :
           users = <<StoredAccount(1, first), StoredAccount(2, second)>>
    /\ user_app_roles = {}
    /\ next_id = 3
    /\ tokens = {create_community_token(to_dict(users[i]), 0) : i \in DOMAIN users}
    /\ now = 0
    /\ ADMIN_EMAILS = <<>>
    /\ resp = Response("start")
    /\ in_flight = {}
    /\ audit_logs = {}
    /\ audit_log_available = TRUE

NextTwoAdmins ==
    \/ Deactivate /\ AuditRoom
    \/ ActivateUser /\ AuditRoom
    \/ ChangeToStaff /\ AuditRoom
    \/ SendAnnouncement /\ AuditRoom
    \/ GetUserPermissions
    \/ Profile

SpecTwoAdmins == InitTwoAdmins /\ [][NextTwoAdmins]_vars

(***************************************************************************)
(* Properties of the administrators' routes (SpecTwoAdmins).                  *)
(***************************************************************************)
\* the access tokens of accounts that are stored as inactive
OfDeactivated ==
    {token \in tokens :
        /\ token.payload.type = "community_access"
        /\ \E user \in get_user_by_id(token.payload.user_id) : ~user.is_active}

\* C26: once an administrator's account is deactivated, no request bearing
\* its unexpired access token passes require_admin or require_super_admin:
\* it changes no role, deactivates or activates no one (itself included) and
\* reads no one's permissions.
C26_DeactivatedAdminLockedOut ==
    [][\A token \in OfDeactivated, user_id \in 1..MaxUsers :
          (\/ assign_user_role(token, user_id, UserRole.STAFF)
           \/ deactivate_user(token, user_id)
           \/ activate_user(token, user_id)
           \/ send_announcement(token)
           \/ get_user_permissions(token, user_id))
              => /\ resp'.status \in {401, 403}
                 /\ users' = users]_vars

(***************************************************************************)
(* routes/landing.py: the applications a user may open.                    *)
(***************************************************************************)
\* APPLICATIONS, in the order of the dict
APPLICATIONS ==
    <<[id |-> "arc", required_permissions |-> <<"access">>],
      [id |-> "qr_gate", required_permissions |-> <<"access">>]>>

\* str.startswith("test_") on the clerk ids that exist
startswith_test(clerk_user_id) ==
    clerk_user_id \in {"test_" \o replace_at(email) : email \in TestEmails}

\* MockUser.__init__: a user object built from a token payload
MockUser(payload) ==
    [id |-> payload.user_id, email |-> payload.email, full_name |-> payload.full_name,
     role |-> payload.role, unit_number |-> payload.unit_number,
     phone_number |-> None, is_active |-> payload.is_active]

\* MockUser.get_permissions_for_service
MockUser_get_permissions_for_service(self, service_name) ==
    IF self.role = UserRole.SUPER_ADMIN
        THEN Return(<<"access", "admin", "manage_users", "view_logs", "super_admin">>)
    ELSE IF service_name = "arc" THEN
        IF ~HasMember("ARC_ADMIN") THEN Raise("AttributeError")
        ELSE IF self.role = Member("ARC_ADMIN")
            THEN Return(<<"access", "admin", "manage_applications", "assign_reviewers", "view_all">>)
        ELSE IF ~HasMember("ARC_REVIEWER") THEN Raise("AttributeError")
        ELSE IF self.role = Member("ARC_REVIEWER")
            THEN Return(<<"access", "review", "comment", "approve", "deny">>)
        ELSE IF self.role \in {UserRole.HOMEOWNER, UserRole.RESIDENT}
            THEN Return(<<"access", "submit", "view_own">>)
        ELSE Return(<<"access">>)
    ELSE IF service_name = "qr_gate" THEN
        IF ~HasMember("QR_ADMIN") THEN Raise("AttributeError")
        ELSE IF self.role = Member("QR_ADMIN")
            THEN Return(<<"access", "admin", "manage_gates", "view_logs", "manage_devices">>)
        ELSE IF self.role \in {UserRole.HOMEOWNER, UserRole.RESIDENT}
            THEN Return(<<"access", "resident_access">>)
        ELSE Return(<<"access">>)
    ELSE Return(<<"access">>)

\* user.get_permissions_for_service: the method of the object's class
permissions_of(user, service_name) ==
    IF user.class = "MockUser"
        THEN MockUser_get_permissions_for_service(user.self, service_name)
        ELSE get_permissions_for_service(user.self, service_name)

\* the user of the bearer token, a MockUser for a test login that has no row,
\* or None (the empty set)
get_current_user_optional(token) ==
    LET payload == validate_token(token, now) IN
    IF payload.raised # "" THEN {}
    ELSE LET user == get_user_by_id(payload.value.user_id) IN
         IF user = {} /\ "clerk_user_id" \in DOMAIN payload.value
                      /\ startswith_test(payload.value.clerk_user_id)
             THEN {[class |-> "MockUser", self |-> MockUser(payload.value)]}
         ELSE {[class |-> "CommunityUser", self |-> found] : found \in user}

get_user_applications(found) ==
    IF found = {} THEN Return(<<>>)
    ELSE LET user == CHOOSE object \in found : TRUE
             permissions(i) == permissions_of(user, APPLICATIONS[i].id)
             failing == {i \in DOMAIN APPLICATIONS : permissions(i).raised # ""}
             has_access(i) ==
                 \E perm \in Range(APPLICATIONS[i].required_permissions) :
                     perm \in Range(permissions(i).value)
             entry(i) == IF has_access(i)
                            THEN <<[id |-> APPLICATIONS[i].id, permissions |-> permissions(i).value]>>
                            ELSE <<>>
         IN IF failing # {}
                THEN permissions(CHOOSE i \in failing : \A j \in failing : i <= j)
                ELSE Return(entry(1) \o entry(2))

\* GET /api/apps
get_user_apps(token) ==
    LET found == get_current_user_optional(token)
        user == CHOOSE object \in found : TRUE
        accessible_apps == get_user_applications(found)
    IN /\ resp' = Presenting(token,
                     IF found = {} THEN Failure("get_user_apps", 401, "Not authenticated")
                     ELSE IF accessible_apps.raised # ""
                         THEN Failed("get_user_apps", accessible_apps, 500, "Internal Server Error")
                     ELSE [Response("get_user_apps") EXCEPT
                               !.user_id = user.self.id, !.role = user.self.role,
                               !.body = Range(accessible_apps.value)])
       /\ UNCHANGED <<users, user_app_roles, next_id, tokens, now, ADMIN_EMAILS, audit_logs, audit_log_available, in_flight>>

\* a call of get_permissions_for_service on a MockUser built from a payload
mock_resolve(payload, service_name) ==
    LET user == MockUser(payload)
        permissions == MockUser_get_permissions_for_service(user, service_name)
    IN /\ resp' = [Response("MockUser.get_permissions_for_service") EXCEPT
                      !.user_id = user.id, !.role = user.role,
                      !.service = service_name, !.raised = permissions.raised,
                      !.permissions = permissions.value]
       /\ UNCHANGED <<users, user_app_roles, next_id, tokens, now, ADMIN_EMAILS, audit_logs, audit_log_available, in_flight>>

\* payloads of test logins, with every role a payload can carry
MockPayloads ==
    {[user_id |-> 1, clerk_user_id |-> "test_" \o replace_at(email), email |-> email,
      full_name |-> "Test User (" \o email \o ")", role |-> role, unit_number |-> "101",
      is_active |-> TRUE, iat |-> 0, exp |-> jwt_expire_minutes,
      iss |-> "community-auth-service", type |-> "community_access"] :
        email \in TestEmails, role \in UserRoleValues}

InitLanding ==
    /\ \E role \in UserRoleValues : users \in {<<>>, <<StoredUser(role, TRUE)>>}
    /\ user_app_roles = {}
    /\ next_id = Len(users) + 1
    /\ tokens = {}
    /\ now = 0
    /\ ADMIN_EMAILS = <<>>
    /\ resp = Response("start")
    /\ in_flight = {}
    /\ audit_logs = {}
    /\ audit_log_available = TRUE

GetUserApps == \E token \in Presentable : get_user_apps(token)
MockResolve ==
    \E payload \in MockPayloads, service_name \in Services : mock_resolve(payload, service_name)

NextLanding ==
    \/ TestLogin
    \/ GetUserApps
    \/ MockResolve
    \/ Resolve

SpecLanding == InitLanding /\ [][NextLanding]_vars

(***************************************************************************)
(* Properties of the landing page (SpecLanding).                           *)
(***************************************************************************)
\* the stored user that carries the fields of a payload
Loaded(payload) == {[class |-> "CommunityUser", self |-> MockUser(payload)]}

\* C27: for every role and service name the resolver of a MockUser built
\* from a token payload returns what CommunityUser.get_permissions_for_service
\* returns for a stored user of that role, and the applications listed for
\* the MockUser are those listed for the stored user.
C27_MockUserResolvesAlike ==
    [][\A payload \in MockPayloads, service_name \in Services :
          mock_resolve(payload, service_name)
              => LET stored == get_permissions_for_service(MockUser(payload), service_name)
                 IN /\ resp'.raised = stored.raised
                    /\ resp'.permissions = stored.value
                    /\ get_user_applications({[class |-> "MockUser", self |-> MockUser(payload)]})
                           = get_user_applications(Loaded(payload))]_vars

(***************************************************************************)
(* App roles and permission resolution (SpecPermissions).                  *)
(***************************************************************************)
\* a stored user as the resolver sees it: the row with its app_roles
\* relationship
with_app_roles(user) ==
    [field \in DOMAIN user \cup {"app_roles"} |->
        IF field = "app_roles" THEN app_roles_of(user.id) ELSE user[field]]

\* C28: setting, changing or removing an app role of a user never changes
\* what get_permissions_for_service gives for that user, for any service:
\* the object with its new app-role map resolves as it did with the old one,
\* and the global role is left alone.
C28_AppRolesGrantNothing ==
    [][\A user_id \in DOMAIN users, input \in AppRoleInputs :
          (\/ set_user_app_role(user_id, input[1], input[2])
           \/ remove_user_app_role(user_id, input[1]))
              => \A service_name \in Services :
                     get_permissions_for_service(with_app_roles(users[user_id]), service_name)'
                         = get_permissions_for_service(with_app_roles(users[user_id]), service_name)]_vars

\* a resident was just made reviewer of arc and still resolves to the
\* resident's permissions, none of them a reviewer's
C28_Witness ==
    /\ resp.op = "set_user_app_role"
    /\ \E user \in get_user_by_id(resp.user_id) :
           /\ user.role = UserRole.RESIDENT
           /\ \E r \in with_app_roles(user).app_roles : r.app_name = "arc" /\ r.role = "reviewer"
           /\ get_permissions_for_service(with_app_roles(user), "billing") = Return(<<"access", "user">>)
           /\ get_permissions_for_service(with_app_roles(user), "community_auth")
                  = Return(<<"access", "view_profile", "update_profile">>)

(***************************************************************************)
(* routes/auth.py: logins in progress.  A login looks the user up, then    *)
(* creates or updates the row in its own transaction; other requests may   *)
(* run between the two awaits.                                             *)
(***************************************************************************)
\* login_with_clerk up to the end of "await user_repo.get_by_clerk_id(...)"
login_with_clerk_lookup(identity) ==
    /\ Cardinality(in_flight) < MaxInFlight
    /\ in_flight' = in_flight \cup
           {[id |-> free_request, op |-> "login_with_clerk", identity |-> identity,
             found |-> get_user_by_clerk_id(identity.clerk_user_id)]}
    /\ UNCHANGED <<users, user_app_roles, next_id, tokens, now, ADMIN_EMAILS, audit_logs, audit_log_available, resp>>

\* login_with_clerk from "if not user:" on, with the user its lookup gave
login_with_clerk_save(request) ==
    LET identity == request.identity
        current == get_user_by_clerk_id(identity.clerk_user_id)
        saved == IF request.found = {}
                 THEN create_user(identity.clerk_user_id, identity.email, identity.full_name,
                                  initial_role(identity.email), None, identity.phone_number)
                 ELSE IF current = {} THEN Raise("AttributeError")
                 ELSE update_user(CHOOSE u \in current : TRUE, identity.email,
                                  identity.full_name, None, None, identity.phone_number, None)
    IN /\ request.op = "login_with_clerk"
       /\ in_flight' = in_flight \ {request}
       /\ IF saved.raised # ""
          THEN /\ resp' = Failed("login_with_clerk", saved, 500, "Login failed")
               /\ UNCHANGED <<users, user_app_roles, next_id, tokens, now, ADMIN_EMAILS, audit_logs, audit_log_available>>
          ELSE LET user == saved.value
                   new_access_token == create_community_token(to_dict(user), now)
                   new_refresh_token == create_refresh_token(user.id, now)
                   logged == log_user_action(written(user), user.id, "community_auth",
                                             "login", None)
               IN /\ user.id = next_id => next_id <= MaxUsers
                  /\ Room({new_access_token, new_refresh_token})
                  /\ users' = written(user)
                  /\ next_id' = IF user.id = next_id THEN next_id + 1 ELSE next_id
                  /\ IF logged.raised # ""
                     THEN /\ resp' = Failed("login_with_clerk", logged, 500, "Login failed")
                          /\ UNCHANGED <<tokens, audit_logs>>
                     ELSE /\ tokens' = tokens \cup {new_access_token, new_refresh_token}
                          /\ audit_logs' = logged.value
                          /\ resp' = [Response("login_with_clerk") EXCEPT
                                          !.user_id = user.id, !.role = user.role,
                                          !.issued = {new_access_token, new_refresh_token}]
                  /\ UNCHANGED <<user_app_roles, now, ADMIN_EMAILS, audit_log_available>>

LookupLogin == \E identity \in KnownIdentities : login_with_clerk_lookup(identity)
SaveLogin == \E request \in in_flight : login_with_clerk_save(request)

NextLogins ==
    \/ LookupLogin
    \/ SaveLogin
    \/ Clock

SpecLogins == Init /\ [][NextLogins]_vars

(***************************************************************************)
(* Properties of overlapping logins (SpecLogins).                          *)
(***************************************************************************)
\* C29: a first-time login whose lookup found no user ends with tokens for
\* the one row of its external id, also when another first-time login of
\* that identity did its lookup before either created the user: one row,
\* tokens for both, no failure.
C29_ConcurrentFirstLogins ==
    [][\A request \in in_flight :
          (request.found = {} /\ login_with_clerk_save(request))
              => /\ resp'.status = 200
                 /\ resp'.issued # {}
                 /\ \E user \in get_user_by_clerk_id(request.identity.clerk_user_id)' :
                        /\ resp'.user_id = user.id
                        /\ \A token \in resp'.issued : token.payload.user_id = user.id
                 /\ Cardinality({i \in DOMAIN users' :
                        \/ users'[i].clerk_user_id = request.identity.clerk_user_id
                        \/ users'[i].email = request.identity.email}) = 1]_vars

(***************************************************************************)
(* routes/users.py: deactivations in progress.  The require_admin          *)
(* dependency is resolved before the handler body runs, and the body       *)
(* awaits the store; other requests may run in between.                    *)
(***************************************************************************)
\* POST /users/{user_id}/deactivate up to the call of the handler: the
\* dependency admin_user = Depends(require_admin) resolved
deactivate_user_admitted(token, user_id) ==
    LET admin_user == require_admin(token) IN
    IF admin_user.raised # ""
    THEN /\ resp' = Presenting(token, Failed("deactivate_user", admin_user, 500, ""))
         /\ UNCHANGED <<users, user_app_roles, next_id, tokens, now, ADMIN_EMAILS, audit_logs, audit_log_available, in_flight>>
    ELSE /\ Cardinality(in_flight) < MaxInFlight
         /\ in_flight' = in_flight \cup
                {[id |-> free_request, op |-> "deactivate_user", token |-> token,
                  user_id |-> user_id, admin_user |-> admin_user.value]}
         /\ UNCHANGED <<users, user_app_roles, next_id, tokens, now, ADMIN_EMAILS, audit_logs, audit_log_available, resp>>

\* the body of deactivate_user, with the admin_user its dependency gave
deactivate_user_body(request) ==
    LET target == get_user_by_id(request.user_id) IN
    /\ request.op = "deactivate_user"
    /\ in_flight' = in_flight \ {request}
    /\ IF target = {}
       THEN /\ resp' = Presenting(request.token, Failure("deactivate_user", 404, "User not found"))
            /\ UNCHANGED <<users, user_app_roles, next_id, tokens, now, ADMIN_EMAILS, audit_logs, audit_log_available>>
       ELSE IF request.user_id = request.admin_user.id
       THEN /\ resp' = Presenting(request.token,
                                  Failure("deactivate_user", 400, "Cannot deactivate yourself"))
            /\ UNCHANGED <<users, user_app_roles, next_id, tokens, now, ADMIN_EMAILS, audit_logs, audit_log_available>>
       ELSE LET updated_user == [(CHOOSE u \in target : TRUE) EXCEPT !.is_active = FALSE]
                logged == log_user_action(written(updated_user), request.admin_user.id,
                                          "community_auth", "user_deactivated", request.user_id)
            IN /\ users' = written(updated_user)
               /\ IF logged.raised # ""
                  THEN /\ resp' = Presenting(request.token,
                                             Failed("deactivate_user", logged, 500,
                                                    "Internal Server Error"))
                       /\ UNCHANGED audit_logs
                  ELSE /\ audit_logs' = logged.value
                       /\ resp' = [Response("deactivate_user") EXCEPT
                                       !.presented = {request.token},
                                       !.user_id = updated_user.id,
                                       !.role = updated_user.role]
               /\ UNCHANGED <<user_app_roles, next_id, tokens, now, ADMIN_EMAILS, audit_log_available>>

AdmitDeactivate ==
    \E token \in Presentable, user_id \in 1..MaxUsers : deactivate_user_admitted(token, user_id)
RunDeactivate == \E request \in in_flight : deactivate_user_body(request)

NextDeactivations ==
    \/ AdmitDeactivate
    \/ RunDeactivate

SpecDeactivations == InitTwoAdmins /\ [][NextDeactivations]_vars

(***************************************************************************)
(* Properties of deactivation (SpecDeactivations).                         *)
(***************************************************************************)
\* the administrators whose account is active
ActiveAdmins ==
    {i \in DOMAIN users : /\ users[i].is_active
                          /\ users[i].role \in {UserRole.SUPER_ADMIN, UserRole.ADMIN}}

\* C30: a deactivate_user request for the caller's own id ends with 400 and
\* changes nothing, and no deactivate_user request of a caller who was an
\* active administrator when admitted leaves the store without an active
\* administrator, however the requests interleave.
C30_SomeAdminStaysActive ==
    [][\A request \in in_flight :
          deactivate_user_body(request)
              => /\ request.admin_user.id = request.user_id
                        => resp'.status = 400 /\ users' = users
                 /\ (request.admin_user.is_active /\ ActiveAdmins # {})
                        => ActiveAdmins' # {}]_vars

====
